---- MODULE Spec2Model ----
(***************************************************************************)
(* Mechanical Basic: the tree-walking evaluator (Interpreter) and its      *)
(* entry points Interpret, Load, Call, Validate, HasFunction,              *)
(* RegisterFunction and SetMaxIterations.                                  *)
(*                                                                         *)
(* The evaluator is modelled as a small-step machine: `stack` holds one    *)
(* frame per Go activation that is waiting for a sub-evaluation, `ctl`     *)
(* says what the innermost activation does next.  The struct fields of     *)
(* Interpreter are the variables of the same name.                         *)
(***************************************************************************)
EXTENDS Integers, Sequences, FiniteSets, TLC

VARIABLES
    externalFuncs,   \* map[string]ExternalFunc: lowercased name -> callback id, NoCallback when absent
    userFuncs,       \* map[string]*FunctionStatement: lowercased name -> node, NoFunction when absent
    scopes,          \* []map[string]interface{}: scopes[1] is the global frame
    astCache,        \* map[string]*Program keyed by hashCode(code)
    maxIterations,
    iterationCount,
    breakFlag,
    returnFlag,
    returnValue,
    stack,           \* pending Go activations, innermost last
    ctl,             \* what the innermost activation does next
    out,             \* values delivered to printFunc during the current entry point
    stmts,           \* executeStatement calls made by the current entry point
    bodyRuns,        \* FOR bodies started by the current entry point
    cur,             \* the entry point that is running or ran last
    hist,            \* the entry points that have returned, oldest first
    suite,           \* the host scenario the entry points are drawn from
    tokenizer,       \* a Tokenizer and the ScanAll that drives it, NoTokenizer when none runs
    parser           \* a Parser and what it returned, NoParser when none runs

vars == <<externalFuncs, userFuncs, scopes, astCache, maxIterations, iterationCount,
          breakFlag, returnFlag, returnValue, stack, ctl, out, stmts, bodyRuns,
          cur, hist, suite, tokenizer, parser>>

\* The evaluator's variables, and those of the lexer and the parser taken alone.
interpreterVars == <<externalFuncs, userFuncs, scopes, astCache, maxIterations,
                     iterationCount, breakFlag, returnFlag, returnValue, stack, ctl, out,
                     stmts, bodyRuns, cur, hist, suite>>

\* ------------------------------------------------------------------ bounds

\* Entry points (Interpret, Load, Validate, Call) one host scenario makes.
MaxOps == 3

\* Largest limit the host passes to SetMaxIterations.
MaxLimit == 3

\* const MaxIterations = 100000
MaxIterations == 100000

\* Longest input, in characters, handed to Tokenize.
MaxInput == 4

\* The characters of those inputs: letters, a digit, blank, newline, quote,
\* comment mark, backslash, decimal point and two operator characters.
Chars == {"o", "r", "1", " ", "\n", "\"", "#", "\\", ".", "<", "="}

Inputs == UNION {[1..n -> Chars] : n \in 0..MaxInput}

\* Most binary operators in one expression handed to the parser.
MaxOperators == 2

\* The expressions: operands joined by binary operators, one operator of
\* each precedence level and both additive ones; an operand is a name, a
\* number, either of them under NOT or unary minus, or missing.
BinaryTokens == {"OR", "AND", "EQ", "LT", "PLUS", "MINUS", "STAR"}

OperandForms == {"name", "number", "not", "minus", "missing"}

ExprInputs ==
    UNION {[forms : [1..(n + 1) -> OperandForms], ops : [1..n -> BinaryTokens]] :
              n \in 0..MaxOperators}

OperandTokens(form, i) ==
    LET name   == [Type |-> "IDENTIFIER", Value |-> <<<<"a", "b", "c", "d", "e">>[i]>>]
        number == [Type |-> "INT", Value |-> <<<<"2", "3", "4", "5", "6">>[i]>>]
    IN  CASE form = "name"    -> <<name>>
          [] form = "number"  -> <<number>>
          [] form = "not"     -> <<[Type |-> "NOT", Value |-> <<"n", "o", "t">>], name>>
          [] form = "minus"   -> <<[Type |-> "MINUS", Value |-> <<"-">>], number>>
          [] form = "missing" -> <<>>

RECURSIVE ExprTokens(_, _)
ExprTokens(e, i) ==
    OperandTokens(e.forms[i], i) \o
    (IF i <= Len(e.ops)
     THEN <<[Type |-> e.ops[i], Value |-> <<e.ops[i]>>]>> \o ExprTokens(e, i + 1)
     ELSE <<>>)

\* The token slice of `print <expression>`, each token at its column.
PrintTokens(e) ==
    LET raw == <<[Type |-> "PRINT", Value |-> <<"p">>]>> \o ExprTokens(e, 1)
               \o <<[Type |-> "EOF", Value |-> <<>>]>>
    IN  [i \in 1..Len(raw) |->
            [Type |-> raw[i].Type, Value |-> raw[i].Value, Line |-> 1, Column |-> i]]

\* ------------------------------------------------------------------ values

\* interface{} values.  k is the dynamic Go type: "int" (Go int: host
\* arguments, loop counters, results of int arithmetic), "int64" (what an
\* IntLiteral carries), "float64" (the rational n/d, d > 0), "string",
\* "bool" (n = 1 for true) and "nil".
IntV(n)      == [k |-> "int",     n |-> n, d |-> 1, s |-> ""]
Int64V(n)    == [k |-> "int64",   n |-> n, d |-> 1, s |-> ""]
StrV(s)      == [k |-> "string",  n |-> 0, d |-> 1, s |-> s]
BoolV(b)     == [k |-> "bool",    n |-> IF b THEN 1 ELSE 0, d |-> 1, s |-> ""]
NilV        == [k |-> "nil",     n |-> 0, d |-> 1, s |-> ""]

Abs(n) == IF n < 0 THEN -n ELSE n

RECURSIVE Gcd(_, _)
Gcd(a, b) == IF b = 0 THEN a ELSE Gcd(b, a % b)

\* float64 n/d in lowest terms with a positive denominator.
FloatV(n, d) ==
    LET sn == IF d < 0 THEN -n ELSE n
        sd == Abs(d)
        g  == Gcd(Abs(sn), sd)
    IN  [k |-> "float64", n |-> sn \div g, d |-> sd \div g, s |-> ""]

\* Go's int(v) and integer division truncate toward zero.
TruncDiv(a, b) ==
    LET q == Abs(a) \div Abs(b)
    IN  IF (a < 0) = (b < 0) THEN q ELSE -q

\* A key a map does not hold.
Unbound == [k |-> "unbound", n |-> 0, d |-> 1, s |-> ""]

\* ------------------------------------------------------------------ AST

NoExpr == [t |-> "none"]

LetStatement(name, value)              == [t |-> "let", name |-> name, value |-> value]
AssignStatement(name, operator, value) == [t |-> "assign", name |-> name, operator |-> operator, value |-> value]
ElseIfClause(condition, block)         == [condition |-> condition, block |-> block]
IfStatement(condition, thenBlock, elseIfClauses, elseBlock) ==
    [t |-> "if", condition |-> condition, thenBlock |-> thenBlock,
     elseIfClauses |-> elseIfClauses, elseBlock |-> elseBlock]
ForStatement(variable, start, end, body) ==
    [t |-> "for", variable |-> variable, start |-> start, end |-> end, body |-> body]
BreakStatement                         == [t |-> "break"]
FunctionStatement(name, params, body)  == [t |-> "function", name |-> name, params |-> params, body |-> body]
ReturnStatement(value)                 == [t |-> "return", value |-> value]
PrintStatement(value)                  == [t |-> "print", value |-> value]
ExpressionStatement(expr)              == [t |-> "expr", expr |-> expr]

IntLiteral(n)                 == [t |-> "int", value |-> Int64V(n)]
FloatLiteral(n, d)            == [t |-> "float", value |-> FloatV(n, d)]
StringLiteral(s)              == [t |-> "string", value |-> StrV(s)]
BoolLiteral(b)                == [t |-> "bool", value |-> BoolV(b)]
Identifier(name)              == [t |-> "ident", name |-> name]
BinaryExpr(left, operator, right) == [t |-> "binary", left |-> left, operator |-> operator, right |-> right]
UnaryExpr(operator, operand)  == [t |-> "unary", operator |-> operator, operand |-> operand]
CallExpr(name, args)          == [t |-> "call", name |-> name, args |-> args]

NoFunction == [t |-> "none"]

\* ------------------------------------------------------------------ names

\* strings.ToLower on the identifiers the modelled programs and hosts use.
ToLower(s) ==
    CASE s \in {"Test", "TEST"}  -> "test"
      [] s = "Increment"         -> "increment"
      [] s = "setAndGet"         -> "setandget"
      [] s = "tryGetX"           -> "trygetx"
      [] s = "tryGetY"           -> "trygety"
      [] s = "tryGetP"           -> "trygetp"
      [] s = "GetOne"            -> "getone"
      [] s = "Counter"           -> "counter"
      [] s = "Echo"              -> "echo"
      [] s = "X"                 -> "x"
      [] s = "GetValue"          -> "getvalue"
      [] OTHER                   -> s

\* Keys a scope frame can hold (lowercased variable names of the programs).
VarKeys == {"counter", "x", "y", "p", "zz", "n", "k", "i", "j", "m", "a", "r", "b", "z",
            "s", "e", "v", "g", "fresh", "secret", "X", "q"}

\* Keys the function tables can hold or be asked for.
FuncKeys == {"test", "increment", "setandget", "trygetx", "trygety", "trygetp",
             "inner", "early", "ping", "getone", "missing",
             "lo", "hi", "span", "callee", "caller", "shadow", "setg", "seth",
             "give", "none", "both", "echo", "inc", "dec", "addto", "subfrom",
             "GetValue", "getvalue", "div", "fact", "factorial", "t", "f", "quit"}

\* make(map[string]interface{})
EmptyFrame == [key \in VarKeys |-> Unbound]

\* make(map[string]*FunctionStatement)
EmptyFuncs == [key \in FuncKeys |-> NoFunction]

\* make(map[string]ExternalFunc)
NoCallback == "none"
EmptyExternals == [key \in FuncKeys |-> NoCallback]

Has(frame, name) == frame[name].k # "unbound"

\* ------------------------------------------------------------------ scopes

currentScope(sc) == sc[Len(sc)]

pushScope(sc) == Append(sc, EmptyFrame)

popScope(sc) == IF Len(sc) > 1 THEN SubSeq(sc, 1, Len(sc) - 1) ELSE sc

\* i.currentScope()[name] = value
bindCurrent(sc, name, value) == [sc EXCEPT ![Len(sc)][name] = value]

\* The frames, innermost first, that bind name.
Binders(sc, name) == {j \in 1..Len(sc) : Has(sc[j], name)}

Max(S) == CHOOSE x \in S : \A y \in S : y <= x

Ok(v)     == [ok |-> TRUE,  v |-> v,   err |-> ""]
Fail(msg) == [ok |-> FALSE, v |-> NilV, err |-> msg]

getVariable(sc, name) ==
    IF Binders(sc, name) = {}
    THEN Fail("undefined variable")
    ELSE Ok(sc[Max(Binders(sc, name))][name])

\* An assignment that always binds in the current frame.
setVariableCurrent(sc, name, value) == bindCurrent(sc, name, value)

setVariable(sc, name, value) ==
    IF Binders(sc, name) = {}
    THEN bindCurrent(sc, name, value)
    ELSE [sc EXCEPT ![Max(Binders(sc, name))][name] = value]

\* ------------------------------------------------------------------ value operations

toFloat64(val) ==
    IF val.k \in {"int", "float64"} THEN Ok(FloatV(val.n, val.d)) ELSE Fail("not numeric")

toInt(val) ==
    CASE val.k = "int"     -> Ok(IntV(val.n))
      [] val.k = "float64" -> Ok(IntV(TruncDiv(val.n, val.d)))
      [] OTHER             -> Fail("not numeric")

\* Decimal digits of the fraction num/den (num < den), at most k of them.
RECURSIVE FracDigits(_, _, _)
FracDigits(num, den, k) ==
    IF num = 0 \/ k = 0 THEN ""
    ELSE ToString((num * 10) \div den) \o FracDigits((num * 10) % den, den, k - 1)

\* %d and %v of an integer.
FormatInt(n) == IF n < 0 THEN "-" \o ToString(-n) ELSE ToString(n)

\* %g of a float64 of moderate size: the integer part, then up to six
\* fraction digits when there are any.
FormatFloat(n, d) ==
    LET whole == Abs(n) \div d
        frac  == Abs(n) % d
        sign  == IF n < 0 THEN "-" ELSE ""
    IN  IF frac = 0 THEN sign \o ToString(whole)
        ELSE sign \o ToString(whole) \o "." \o FracDigits(frac, d, 6)

toString(val) ==
    CASE val.k = "string"  -> val.s
      [] val.k = "int"     -> FormatInt(val.n)
      [] val.k = "float64" -> FormatFloat(val.n, val.d)
      [] val.k = "bool"    -> IF val.n = 1 THEN "true" ELSE "false"
      [] val.k = "nil"     -> ""
      [] OTHER             -> FormatInt(val.n)

isTruthy(val) ==
    CASE val.k = "nil"     -> FALSE
      [] val.k = "bool"    -> val.n = 1
      [] val.k = "int"     -> val.n # 0
      [] val.k = "float64" -> val.n # 0
      [] val.k = "string"  -> val.s # ""
      [] OTHER             -> TRUE

BothInt(left, right) == left.k = "int" /\ right.k = "int"
Numeric(left, right) == toFloat64(left).ok /\ toFloat64(right).ok

addValues(left, right) ==
    IF left.k = "string" THEN Ok(StrV(left.s \o toString(right)))
    ELSE IF right.k = "string" THEN Ok(StrV(toString(left) \o toString(right)))
    ELSE IF ~Numeric(left, right) THEN Fail("cannot add")
    ELSE IF BothInt(left, right) THEN Ok(IntV(left.n + right.n))
    ELSE Ok(FloatV(left.n * right.d + right.n * left.d, left.d * right.d))

subtractValues(left, right) ==
    IF ~Numeric(left, right) THEN Fail("cannot subtract")
    ELSE IF BothInt(left, right) THEN Ok(IntV(left.n - right.n))
    ELSE Ok(FloatV(left.n * right.d - right.n * left.d, left.d * right.d))

multiplyValues(left, right) ==
    IF ~Numeric(left, right) THEN Fail("cannot multiply")
    ELSE IF BothInt(left, right) THEN Ok(IntV(left.n * right.n))
    ELSE Ok(FloatV(left.n * right.n, left.d * right.d))

\* A division that gives 0 when the divisor is zero.
divideValuesZeroQuotient(left, right) ==
    IF ~Numeric(left, right) THEN Fail("cannot divide")
    ELSE IF right.n = 0 THEN Ok(FloatV(0, 1))
    ELSE IF BothInt(left, right) THEN Ok(IntV(TruncDiv(left.n, right.n)))
    ELSE Ok(FloatV(left.n * right.d, left.d * right.n))

divideValues(left, right) ==
    IF ~Numeric(left, right) THEN Fail("cannot divide")
    ELSE IF right.n = 0 THEN Fail("division by zero")
    ELSE IF BothInt(left, right) THEN Ok(IntV(TruncDiv(left.n, right.n)))
    ELSE Ok(FloatV(left.n * right.d, left.d * right.n))

equalValues(left, right) ==
    CASE left.k \in {"int", "float64"} /\ right.k \in {"int", "float64"} ->
             left.n * right.d = right.n * left.d
      [] left.k = "string" /\ right.k = "string" -> left.s = right.s
      [] left.k = "bool" /\ right.k = "bool"     -> left.n = right.n
      [] OTHER                                   -> FALSE

\* The decimal digits of n >= 0 as bytes ('0' is 48).
RECURSIVE DigitBytes(_)
DigitBytes(n) ==
    IF n < 10 THEN <<48 + n>> ELSE Append(DigitBytes(n \div 10), 48 + (n % 10))

\* The bytes of toString(val).  The modelled programs compare as text only
\* integers, booleans and nil; the few string values they hold are listed.
TextBytes(val) ==
    CASE val.k \in {"int", "int64"} ->
             IF val.n < 0 THEN <<45>> \o DigitBytes(-val.n) ELSE DigitBytes(val.n)
      [] val.k = "bool" ->
             IF val.n = 1 THEN <<116, 114, 117, 101>> ELSE <<102, 97, 108, 115, 101>>
      [] val.k = "string" /\ val.s = "s" -> <<115>>
      [] val.k = "string" /\ val.s = "ab" -> <<97, 98>>
      [] OTHER -> <<>>

\* Go's ls < rs on strings: bytewise, a proper prefix first.
StringLess(ls, rs) ==
    \E q \in 1..Len(rs) :
        /\ q - 1 <= Len(ls)
        /\ \A j \in 1..(q - 1) : ls[j] = rs[j]
        /\ \/ q = Len(ls) + 1
           \/ q <= Len(ls) /\ ls[q] < rs[q]

compareValues(left, right) ==
    LET lf == left.n * right.d
        rf == right.n * left.d
        ls == TextBytes(left)
        rs == TextBytes(right)
    IN  IF Numeric(left, right)
        THEN IF lf < rf THEN -1 ELSE IF lf > rf THEN 1 ELSE 0
        ELSE IF StringLess(ls, rs) THEN -1 ELSE IF StringLess(rs, ls) THEN 1 ELSE 0

\* ------------------------------------------------------------------ source texts

\* The source texts the host passes in, each named by a short tag, and the
\* Program that Tokenize and Parse produce for it.

\* print "top"
\* function Test():
\*     print "fn"
\* endfunction
ProgTop == <<
    PrintStatement(StringLiteral("top")),
    FunctionStatement("Test", <<>>, <<PrintStatement(StringLiteral("fn"))>>) >>

\* counter = 0
\* function increment():
\*     counter = counter + 1
\*     return counter
\* endfunction
ProgCounter == <<
    AssignStatement("counter", "=", IntLiteral(0)),
    FunctionStatement("increment", <<>>, <<
        AssignStatement("counter", "=", BinaryExpr(Identifier("counter"), "+", IntLiteral(1))),
        ReturnStatement(Identifier("counter")) >>) >>

\* print counter
\* Counter = "seen"
ProgBump == <<
    PrintStatement(Identifier("counter")),
    AssignStatement("Counter", "=", StringLiteral("seen")) >>

\* function setAndGet(p):
\*     let x = 42
\*     y = p
\*     return x
\* endfunction
\* function tryGetX():
\*     print x
\* endfunction
\* function tryGetY():
\*     print y
\* endfunction
\* function tryGetP():
\*     print p
\* endfunction
ProgLocals == <<
    FunctionStatement("setAndGet", <<"p">>, <<
        LetStatement("x", IntLiteral(42)),
        AssignStatement("y", "=", Identifier("p")),
        ReturnStatement(Identifier("x")) >>),
    FunctionStatement("tryGetX", <<>>, <<PrintStatement(Identifier("x"))>>),
    FunctionStatement("tryGetY", <<>>, <<PrintStatement(Identifier("y"))>>),
    FunctionStatement("tryGetP", <<>>, <<PrintStatement(Identifier("p"))>>) >>

\* function inner(n):
\*     for k = 1.0 to n
\*         print k
\*     next k
\* endfunction
\* for i = 1.0 to 2.0
\*     for j = 1.0 to 1.0
\*         inner(2.0)
\*     next j
\* next i
\* for m = 1.0 to 1.0
\*     print m
\* next m
ProgLoops == <<
    FunctionStatement("inner", <<"n">>, <<
        ForStatement("k", FloatLiteral(1, 1), Identifier("n"), <<
            PrintStatement(Identifier("k")) >>) >>),
    ForStatement("i", FloatLiteral(1, 1), FloatLiteral(2, 1), <<
        ForStatement("j", FloatLiteral(1, 1), FloatLiteral(1, 1), <<
            ExpressionStatement(CallExpr("inner", <<FloatLiteral(2, 1)>>)) >>) >>),
    ForStatement("m", FloatLiteral(1, 1), FloatLiteral(1, 1), <<
        PrintStatement(Identifier("m")) >>) >>

\* function early(r, b):
\*     for a = 1.0 to 2.0
\*         if r then
\*             return a
\*         elseif b then
\*             break
\*         else
\*             print zz
\*         endif
\*     next a
\* endfunction
\* x = early(true, false)
\* y = early(false, true)
\* z = early(false, false)
ProgExits == <<
    FunctionStatement("early", <<"r", "b">>, <<
        ForStatement("a", FloatLiteral(1, 1), FloatLiteral(2, 1), <<
            IfStatement(Identifier("r"),
                <<ReturnStatement(Identifier("a"))>>,
                <<ElseIfClause(Identifier("b"), <<BreakStatement>>)>>,
                <<PrintStatement(Identifier("zz"))>>) >>) >>),
    AssignStatement("x", "=", CallExpr("early", <<BoolLiteral(TRUE), BoolLiteral(FALSE)>>)),
    AssignStatement("y", "=", CallExpr("early", <<BoolLiteral(FALSE), BoolLiteral(TRUE)>>)),
    AssignStatement("z", "=", CallExpr("early", <<BoolLiteral(FALSE), BoolLiteral(FALSE)>>)) >>

\* function ping():
\*     return 1
\* endfunction
\* break
\* print "a"
\* return 5
\* print "b"
ProgFlags == <<
    FunctionStatement("ping", <<>>, <<ReturnStatement(IntLiteral(1))>>),
    BreakStatement,
    PrintStatement(StringLiteral("a")),
    ReturnStatement(IntLiteral(5)),
    PrintStatement(StringLiteral("b")) >>

\* for i = 1.0 to 2.0
\*     print i
\* next i
\* print i
ProgLeak == <<
    ForStatement("i", FloatLiteral(1, 1), FloatLiteral(2, 1), <<
        PrintStatement(Identifier("i")) >>),
    PrintStatement(Identifier("i")) >>

\* i = "outer"
\* for i = 1.0 to 1.0
\*     print i
\*     i = "inner"
\* next i
\* print i
ProgShadow == <<
    AssignStatement("i", "=", StringLiteral("outer")),
    ForStatement("i", FloatLiteral(1, 1), FloatLiteral(1, 1), <<
        PrintStatement(Identifier("i")),
        AssignStatement("i", "=", StringLiteral("inner")) >>),
    PrintStatement(Identifier("i")) >>

\* function lo(v):
\*     print "lo"
\*     return v
\* endfunction
\* function hi(v):
\*     print "hi"
\*     return v
\* endfunction
\* function span(s, e):
\*     for i = lo(s) to hi(e)
\*         print i
\*         i = "changed"
\*     next i
\* endfunction
ProgSpan == <<
    FunctionStatement("lo", <<"v">>, <<
        PrintStatement(StringLiteral("lo")), ReturnStatement(Identifier("v")) >>),
    FunctionStatement("hi", <<"v">>, <<
        PrintStatement(StringLiteral("hi")), ReturnStatement(Identifier("v")) >>),
    FunctionStatement("span", <<"s", "e">>, <<
        ForStatement("i", CallExpr("lo", <<Identifier("s")>>), CallExpr("hi", <<Identifier("e")>>), <<
            PrintStatement(Identifier("i")),
            AssignStatement("i", "=", StringLiteral("changed")) >>) >>) >>

\* for i = 1.0 to 2.0
\*     for j = 1.0 to 3.0
\*         print j
\*         if j = 2.0 then
\*             break
\*         endif
\*         print "after"
\*     next j
\*     print "outer"
\* next i
ProgNested == <<
    ForStatement("i", FloatLiteral(1, 1), FloatLiteral(2, 1), <<
        ForStatement("j", FloatLiteral(1, 1), FloatLiteral(3, 1), <<
            PrintStatement(Identifier("j")),
            IfStatement(BinaryExpr(Identifier("j"), "=", FloatLiteral(2, 1)),
                <<BreakStatement>>, <<>>, <<>>),
            PrintStatement(StringLiteral("after")) >>),
        PrintStatement(StringLiteral("outer")) >>) >>

\* function callee():
\*     print secret
\*     secret = "changed"
\*     print k
\* endfunction
\* function caller():
\*     let secret = "s"
\*     for k = 1.0 to 1.0
\*         callee()
\*     next k
\*     return secret
\* endfunction
\* x = caller()
ProgCapture == <<
    FunctionStatement("callee", <<>>, <<
        PrintStatement(Identifier("secret")),
        AssignStatement("secret", "=", StringLiteral("changed")),
        PrintStatement(Identifier("k")) >>),
    FunctionStatement("caller", <<>>, <<
        LetStatement("secret", StringLiteral("s")),
        ForStatement("k", FloatLiteral(1, 1), FloatLiteral(1, 1), <<
            ExpressionStatement(CallExpr("callee", <<>>)) >>),
        ReturnStatement(Identifier("secret")) >>),
    AssignStatement("x", "=", CallExpr("caller", <<>>)) >>

\* x = "global"
\* function shadow():
\*     let x = "local"
\*     print x
\* endfunction
\* shadow()
\* print x
ProgLet == <<
    AssignStatement("x", "=", StringLiteral("global")),
    FunctionStatement("shadow", <<>>, <<
        LetStatement("x", StringLiteral("local")),
        PrintStatement(Identifier("x")) >>),
    ExpressionStatement(CallExpr("shadow", <<>>)),
    PrintStatement(Identifier("x")) >>

\* g = "old"
\* function setg():
\*     g = "new"
\*     fresh = "tmp"
\*     print fresh
\* endfunction
\* function seth():
\*     let g = "mine"
\*     g = "changed"
\*     return g
\* endfunction
\* setg()
\* print g
\* r = seth()
\* print r
\* print g
\* print fresh
ProgAssign == <<
    AssignStatement("g", "=", StringLiteral("old")),
    FunctionStatement("setg", <<>>, <<
        AssignStatement("g", "=", StringLiteral("new")),
        AssignStatement("fresh", "=", StringLiteral("tmp")),
        PrintStatement(Identifier("fresh")) >>),
    FunctionStatement("seth", <<>>, <<
        LetStatement("g", StringLiteral("mine")),
        AssignStatement("g", "=", StringLiteral("changed")),
        ReturnStatement(Identifier("g")) >>),
    ExpressionStatement(CallExpr("setg", <<>>)),
    PrintStatement(Identifier("g")),
    AssignStatement("r", "=", CallExpr("seth", <<>>)),
    PrintStatement(Identifier("r")),
    PrintStatement(Identifier("g")),
    PrintStatement(Identifier("fresh")) >>

\* function give():
\*     return "v"
\* endfunction
\* function none():
\*     print "n"
\* endfunction
\* function both():
\*     let a = give()
\*     let b = none()
\*     print b
\* endfunction
\* x = give()
\* y = none()
\* print y
\* z = both()
\* print z
ProgReturns == <<
    FunctionStatement("give", <<>>, <<ReturnStatement(StringLiteral("v"))>>),
    FunctionStatement("none", <<>>, <<PrintStatement(StringLiteral("n"))>>),
    FunctionStatement("both", <<>>, <<
        LetStatement("a", CallExpr("give", <<>>)),
        LetStatement("b", CallExpr("none", <<>>)),
        PrintStatement(Identifier("b")) >>),
    AssignStatement("x", "=", CallExpr("give", <<>>)),
    AssignStatement("y", "=", CallExpr("none", <<>>)),
    PrintStatement(Identifier("y")),
    AssignStatement("z", "=", CallExpr("both", <<>>)),
    PrintStatement(Identifier("z")) >>

\* function Echo(v):
\*     print "script"
\*     return "s"
\* endfunction
\* print Echo("arg")
\* print Echo()
ProgHost == <<
    FunctionStatement("Echo", <<"v">>, <<
        PrintStatement(StringLiteral("script")), ReturnStatement(StringLiteral("s")) >>),
    PrintStatement(CallExpr("Echo", <<StringLiteral("arg")>>)),
    PrintStatement(CallExpr("Echo", <<>>)) >>

\* function inc(x):
\*     x++
\*     return x
\* endfunction
\* function dec(x):
\*     x--
\*     return x
\* endfunction
\* function addto(x, e):
\*     x += e
\*     return x
\* endfunction
\* function subfrom(x, e):
\*     x -= e
\*     return x
\* endfunction
ProgCompound == <<
    FunctionStatement("inc", <<"x">>, <<
        AssignStatement("x", "++", NoExpr), ReturnStatement(Identifier("x")) >>),
    FunctionStatement("dec", <<"x">>, <<
        AssignStatement("x", "--", NoExpr), ReturnStatement(Identifier("x")) >>),
    FunctionStatement("addto", <<"x", "e">>, <<
        AssignStatement("x", "+=", Identifier("e")), ReturnStatement(Identifier("x")) >>),
    FunctionStatement("subfrom", <<"x", "e">>, <<
        AssignStatement("x", "-=", Identifier("e")), ReturnStatement(Identifier("x")) >>) >>

\* print 2 + 3
\* print 10 / 3
\* print 10.0 / 3
ProgArith == <<
    PrintStatement(BinaryExpr(IntLiteral(2), "+", IntLiteral(3))),
    PrintStatement(BinaryExpr(IntLiteral(10), "/", IntLiteral(3))),
    PrintStatement(BinaryExpr(FloatLiteral(10, 1), "/", IntLiteral(3))) >>

\* "abc          (unterminated string: Tokenize fails)
\* let = 5       (Parse fails: expected identifier after LET)
\* function GetValue():
\*     return "script"
\* endfunction
\* let X = 5
\* print x
\* print getvalue()
\* X = "again"
\* print x
ProgCase == <<
    FunctionStatement("GetValue", <<>>, <<ReturnStatement(StringLiteral("script"))>>),
    LetStatement("X", IntLiteral(5)),
    PrintStatement(Identifier("x")),
    PrintStatement(CallExpr("getvalue", <<>>)),
    AssignStatement("X", "=", StringLiteral("again")),
    PrintStatement(Identifier("x")) >>

\* function div(a, b):
\*     let q = a / b
\*     print "after"
\*     return q
\* endfunction
ProgDiv == <<
    FunctionStatement("div", <<"a", "b">>, <<
        LetStatement("q", BinaryExpr(Identifier("a"), "/", Identifier("b"))),
        PrintStatement(StringLiteral("after")),
        ReturnStatement(Identifier("q")) >>) >>

\* let x = 10 / 0
\* print "after"
ProgDivLit == <<
    LetStatement("x", BinaryExpr(IntLiteral(10), "/", IntLiteral(0))),
    PrintStatement(StringLiteral("after")) >>

\* q = 1.5 / 0.0
\* print "after"
ProgDivFloat == <<
    AssignStatement("q", "=", BinaryExpr(FloatLiteral(3, 2), "/", FloatLiteral(0, 1))),
    PrintStatement(StringLiteral("after")) >>

\* function factorial(n):
\*     if n <= 1 then
\*         return 1
\*     endif
\*     return n * factorial(n - 1)
\* endfunction
\* print factorial(5)
ProgFactorial == <<
    FunctionStatement("factorial", <<"n">>, <<
        IfStatement(BinaryExpr(Identifier("n"), "<=", IntLiteral(1)),
                    <<ReturnStatement(IntLiteral(1))>>, <<>>, <<>>),
        ReturnStatement(BinaryExpr(Identifier("n"), "*",
            CallExpr("factorial", <<BinaryExpr(Identifier("n"), "-", IntLiteral(1))>>))) >>),
    PrintStatement(CallExpr("factorial", <<IntLiteral(5)>>)) >>

\* function fact(n):
\*     if n <= 1.0 then
\*         return 1.0
\*     endif
\*     return n * fact(n - 1.0)
\* endfunction
\* print fact(3.0)
\* print "next"
ProgFact == <<
    FunctionStatement("fact", <<"n">>, <<
        IfStatement(BinaryExpr(Identifier("n"), "<=", FloatLiteral(1, 1)),
                    <<ReturnStatement(FloatLiteral(1, 1))>>, <<>>, <<>>),
        ReturnStatement(BinaryExpr(Identifier("n"), "*",
            CallExpr("fact", <<BinaryExpr(Identifier("n"), "-", FloatLiteral(1, 1))>>))) >>),
    PrintStatement(CallExpr("fact", <<FloatLiteral(3, 1)>>)),
    PrintStatement(StringLiteral("next")) >>

\* function t():
\*     print "t"
\*     return true
\* endfunction
\* function f():
\*     print "f"
\*     return false
\* endfunction
\* print f() and t()
\* print t() or f()
\* print t() or Echo()
ProgLogic == <<
    FunctionStatement("t", <<>>, <<PrintStatement(StringLiteral("t")),
                                   ReturnStatement(BoolLiteral(TRUE))>>),
    FunctionStatement("f", <<>>, <<PrintStatement(StringLiteral("f")),
                                   ReturnStatement(BoolLiteral(FALSE))>>),
    PrintStatement(BinaryExpr(CallExpr("f", <<>>), "and", CallExpr("t", <<>>))),
    PrintStatement(BinaryExpr(CallExpr("t", <<>>), "or", CallExpr("f", <<>>))),
    PrintStatement(BinaryExpr(CallExpr("t", <<>>), "or", CallExpr("Echo", <<>>))) >>

\* function quit():
\*     break
\* endfunction
\* for i = 1.0 to 2.0
\*     quit()
\*     print i
\* next
\* print "done"
ProgStray == <<
    FunctionStatement("quit", <<>>, <<BreakStatement>>),
    ForStatement("i", FloatLiteral(1, 1), FloatLiteral(2, 1), <<
        ExpressionStatement(CallExpr("quit", <<>>)),
        PrintStatement(Identifier("i")) >>),
    PrintStatement(StringLiteral("done")) >>

\* break
\* if true then
\*     print "a"
\*     print "b"
\* endif
\* print "c"
ProgStrayIf == <<
    BreakStatement,
    IfStatement(BoolLiteral(TRUE),
                <<PrintStatement(StringLiteral("a")), PrintStatement(StringLiteral("b"))>>,
                <<>>, <<>>),
    PrintStatement(StringLiteral("c")) >>

\* for i = 1.0 to 3.0
\*     print i
\*     i = 10.0
\*     print i
\* next
\* for k = 1.0 to 2.0
\*     print k
\*     k = 0.0
\* next
ProgReassign == <<
    ForStatement("i", FloatLiteral(1, 1), FloatLiteral(3, 1), <<
        PrintStatement(Identifier("i")),
        AssignStatement("i", "=", FloatLiteral(10, 1)),
        PrintStatement(Identifier("i")) >>),
    ForStatement("k", FloatLiteral(1, 1), FloatLiteral(2, 1), <<
        PrintStatement(Identifier("k")),
        AssignStatement("k", "=", FloatLiteral(0, 1)) >>) >>

Codes == {"top", "counter", "bump", "locals", "loops", "exits", "flags", "badlex", "badparse",
          "leak", "shadow", "span", "nested", "capture", "let", "assign", "returns", "host",
          "compound", "arith", "case", "div", "divlit", "divfloat",
          "factorial", "fact", "logic", "stray", "strayif", "reassign"}

\* Tokenize(code): the token sequence (named by the text it came from) or a
\* lexical error.
Tokenize(code) ==
    IF code = "badlex" THEN [ok |-> FALSE, tokens |-> "", err |-> "unterminated string"]
    ELSE [ok |-> TRUE, tokens |-> code, err |-> ""]

\* Parse(tokens): the Program or the first syntax error.
Parse(tokens) ==
    CASE tokens = "top"     -> [ok |-> TRUE,  prog |-> ProgTop,     err |-> ""]
      [] tokens = "counter" -> [ok |-> TRUE,  prog |-> ProgCounter, err |-> ""]
      [] tokens = "bump"    -> [ok |-> TRUE,  prog |-> ProgBump,    err |-> ""]
      [] tokens = "locals"  -> [ok |-> TRUE,  prog |-> ProgLocals,  err |-> ""]
      [] tokens = "loops"   -> [ok |-> TRUE,  prog |-> ProgLoops,   err |-> ""]
      [] tokens = "exits"   -> [ok |-> TRUE,  prog |-> ProgExits,   err |-> ""]
      [] tokens = "flags"   -> [ok |-> TRUE,  prog |-> ProgFlags,   err |-> ""]
      [] tokens = "leak"    -> [ok |-> TRUE,  prog |-> ProgLeak,    err |-> ""]
      [] tokens = "shadow"  -> [ok |-> TRUE,  prog |-> ProgShadow,  err |-> ""]
      [] tokens = "span"    -> [ok |-> TRUE,  prog |-> ProgSpan,    err |-> ""]
      [] tokens = "nested"  -> [ok |-> TRUE,  prog |-> ProgNested,  err |-> ""]
      [] tokens = "capture" -> [ok |-> TRUE,  prog |-> ProgCapture, err |-> ""]
      [] tokens = "let"     -> [ok |-> TRUE,  prog |-> ProgLet,     err |-> ""]
      [] tokens = "assign"  -> [ok |-> TRUE,  prog |-> ProgAssign,  err |-> ""]
      [] tokens = "returns" -> [ok |-> TRUE,  prog |-> ProgReturns, err |-> ""]
      [] tokens = "host"    -> [ok |-> TRUE,  prog |-> ProgHost,    err |-> ""]
      [] tokens = "compound" -> [ok |-> TRUE, prog |-> ProgCompound, err |-> ""]
      [] tokens = "arith"   -> [ok |-> TRUE,  prog |-> ProgArith,   err |-> ""]
      [] tokens = "case"    -> [ok |-> TRUE,  prog |-> ProgCase,    err |-> ""]
      [] tokens = "div"     -> [ok |-> TRUE,  prog |-> ProgDiv,     err |-> ""]
      [] tokens = "divlit"  -> [ok |-> TRUE,  prog |-> ProgDivLit,  err |-> ""]
      [] tokens = "divfloat" -> [ok |-> TRUE, prog |-> ProgDivFloat, err |-> ""]
      [] tokens = "factorial" -> [ok |-> TRUE, prog |-> ProgFactorial, err |-> ""]
      [] tokens = "fact"    -> [ok |-> TRUE,  prog |-> ProgFact,    err |-> ""]
      [] tokens = "logic"   -> [ok |-> TRUE,  prog |-> ProgLogic,   err |-> ""]
      [] tokens = "stray"   -> [ok |-> TRUE,  prog |-> ProgStray,   err |-> ""]
      [] tokens = "strayif" -> [ok |-> TRUE,  prog |-> ProgStrayIf, err |-> ""]
      [] tokens = "reassign" -> [ok |-> TRUE, prog |-> ProgReassign, err |-> ""]
      [] OTHER              -> [ok |-> FALSE, prog |-> <<>>,        err |-> "expected identifier after LET"]

\* hashCode: the first 8 bytes of SHA-256, distinct for distinct texts.
hashCode(code) == <<"sha256", code>>

Hashes == {hashCode(code) : code \in Codes}

NoProgram == [present |-> FALSE, prog |-> <<>>]

\* make(map[string]*Program)
EmptyCache == [h \in Hashes |-> NoProgram]

\* A cache that also keeps what the parser had when it gave up.
getOrParseProgramPartial(cache, code) ==
    LET hash == hashCode(code)
        toks == Tokenize(code)
        prs  == Parse(toks.tokens)
    IN  IF cache[hash].present
        THEN [ok |-> TRUE, prog |-> cache[hash].prog, err |-> "", cache |-> cache]
        ELSE IF ~toks.ok
        THEN [ok |-> FALSE, prog |-> <<>>, err |-> toks.err, cache |-> cache]
        ELSE IF ~prs.ok
        THEN [ok |-> FALSE, prog |-> <<>>, err |-> prs.err,
              cache |-> [cache EXCEPT ![hash] = [present |-> TRUE, prog |-> prs.prog]]]
        ELSE [ok |-> TRUE, prog |-> prs.prog, err |-> "",
              cache |-> [cache EXCEPT ![hash] = [present |-> TRUE, prog |-> prs.prog]]]

\* A cache that holds only the program it parsed last.
getOrParseProgramLatest(cache, code) ==
    LET hash == hashCode(code)
        toks == Tokenize(code)
        prs  == Parse(toks.tokens)
    IN  IF cache[hash].present
        THEN [ok |-> TRUE, prog |-> cache[hash].prog, err |-> "", cache |-> cache]
        ELSE IF ~toks.ok
        THEN [ok |-> FALSE, prog |-> <<>>, err |-> toks.err, cache |-> cache]
        ELSE IF ~prs.ok
        THEN [ok |-> FALSE, prog |-> <<>>, err |-> prs.err, cache |-> cache]
        ELSE [ok |-> TRUE, prog |-> prs.prog, err |-> "",
              cache |-> [EmptyCache EXCEPT ![hash] = [present |-> TRUE, prog |-> prs.prog]]]

\* getOrParseProgram: the Program (or the error) and the cache afterwards.
getOrParseProgram(cache, code) ==
    LET hash == hashCode(code)
        toks == Tokenize(code)
        prs  == Parse(toks.tokens)
    IN  IF cache[hash].present
        THEN [ok |-> TRUE, prog |-> cache[hash].prog, err |-> "", cache |-> cache]
        ELSE IF ~toks.ok
        THEN [ok |-> FALSE, prog |-> <<>>, err |-> toks.err, cache |-> cache]
        ELSE IF ~prs.ok
        THEN [ok |-> FALSE, prog |-> <<>>, err |-> prs.err, cache |-> cache]
        ELSE [ok |-> TRUE, prog |-> prs.prog, err |-> "",
              cache |-> [cache EXCEPT ![hash] = [present |-> TRUE, prog |-> prs.prog]]]

\* The name of every top-level function of prog, lowercased.
RECURSIVE collectFunctions(_, _)
collectFunctions(funcs, statements) ==
    IF statements = <<>> THEN funcs
    ELSE LET stmt == Head(statements)
         IN  collectFunctions(
                 IF stmt.t = "function"
                 THEN [funcs EXCEPT ![ToLower(stmt.name)] = stmt]
                 ELSE funcs,
                 Tail(statements))

HasFunction(funcName) == userFuncs[ToLower(funcName)].t = "function"

\* ------------------------------------------------------------------ the machine

\* What the innermost activation does next:
\*   eval  evaluateExpression(e) is about to run
\*   val   an expression returned (v, nil) to the activation on top of the stack
\*   ok    the statement loop of the activation on top goes on: it was just
\*         entered, or the statement it ran returned nil
\*   err   a non-nil error is being returned through the activation on top
\*   idle  no entry point is running; v and err are what the last one returned
Eval(e)        == [m |-> "eval", e |-> e,      v |-> NilV, err |-> ""]
Val(v)         == [m |-> "val",  e |-> NoExpr, v |-> v,    err |-> ""]
Done           == [m |-> "ok",   e |-> NoExpr, v |-> NilV, err |-> ""]
Err(msg)       == [m |-> "err",  e |-> NoExpr, v |-> NilV, err |-> msg]
Returned(v, e) == [m |-> "idle", e |-> NoExpr, v |-> v,    err |-> e]

\* One waiting activation.  f names the Go function and the point it waits at.
Frame(f) == [f |-> f, node |-> NoExpr, list |-> <<>>, idx |-> 0, hi |-> 0,
             vals |-> <<>>, v |-> NilV, flag |-> FALSE]

\* The interpreter's execution state as one record.
M == [scopes |-> scopes, iterationCount |-> iterationCount, breakFlag |-> breakFlag,
      returnFlag |-> returnFlag, returnValue |-> returnValue, stack |-> stack,
      ctl |-> ctl, out |-> out, stmts |-> stmts, bodyRuns |-> bodyRuns]

Top(m)      == m.stack[Len(m.stack)]
Push(m, fr) == [m EXCEPT !.stack = Append(@, fr)]
Pop(m)      == [m EXCEPT !.stack = SubSeq(@, 1, Len(@) - 1)]
Goto(m, c)  == [m EXCEPT !.ctl = c]
SetTop(m, fr) == [m EXCEPT !.stack[Len(m.stack)] = fr]

\* ------------------------------------------------------------------ statements

executeAssignStatement(m, stmt) ==
    LET name == ToLower(stmt.name)
        val  == getVariable(m.scopes, name)
        inc  == addValues(val.v, IntV(1))
        dec  == subtractValues(val.v, IntV(1))
    IN  CASE stmt.operator = "++" ->
                 IF ~val.ok THEN Goto(m, Err(val.err))
                 ELSE IF ~inc.ok THEN Goto(m, Err("cannot increment"))
                 ELSE Goto([m EXCEPT !.scopes = setVariable(@, name, inc.v)], Done)
          [] stmt.operator = "--" ->
                 IF ~val.ok THEN Goto(m, Err(val.err))
                 ELSE IF ~dec.ok THEN Goto(m, Err("cannot decrement"))
                 ELSE Goto([m EXCEPT !.scopes = setVariable(@, name, dec.v)], Done)
          [] stmt.operator \in {"+=", "-="} ->
                 IF ~val.ok THEN Goto(m, Err(val.err))
                 ELSE Goto(Push(m, [Frame("assign") EXCEPT !.node = stmt, !.v = val.v]),
                           Eval(stmt.value))
          [] stmt.operator = "=" ->
                 Goto(Push(m, [Frame("assign") EXCEPT !.node = stmt]), Eval(stmt.value))
          [] OTHER -> Goto(m, Err("unknown assignment operator"))

executeStatement(m0, stmt) ==
    LET m == [m0 EXCEPT !.stmts = @ + 1]
    IN  CASE stmt.t = "let" ->
                 Goto(Push(m, [Frame("let") EXCEPT !.node = stmt]), Eval(stmt.value))
          [] stmt.t = "assign" -> executeAssignStatement(m, stmt)
          [] stmt.t = "if" ->
                 Goto(Push(m, [Frame("if") EXCEPT !.node = stmt]), Eval(stmt.condition))
          [] stmt.t = "for" ->
                 Goto(Push(m, [Frame("forStart") EXCEPT !.node = stmt]), Eval(stmt.start))
          [] stmt.t = "break" -> Goto([m EXCEPT !.breakFlag = TRUE], Done)
          [] stmt.t = "return" ->
                 IF stmt.value.t # "none"
                 THEN Goto(Push(m, [Frame("return") EXCEPT !.node = stmt]), Eval(stmt.value))
                 ELSE Goto([m EXCEPT !.returnFlag = TRUE], Done)
          [] stmt.t = "print" ->
                 Goto(Push(m, [Frame("print") EXCEPT !.node = stmt]), Eval(stmt.value))
          [] stmt.t = "expr" ->
                 Goto(Push(m, [Frame("expr") EXCEPT !.node = stmt]), Eval(stmt.expr))
          [] stmt.t = "function" -> Goto(m, Done)
          [] OTHER -> Goto(m, Err("unknown statement type"))

\* executeBlock entered: its loop is about to start.
executeBlock(m, statements) ==
    Goto(Push(m, [Frame("block") EXCEPT !.list = statements]), Done)

\* The loop of executeBlock after the statement at fr.idx (none when 0).
executeBlockNext(m) ==
    LET fr == Top(m)
    IN  IF (fr.idx > 0 /\ (m.breakFlag \/ m.returnFlag)) \/ fr.idx = Len(fr.list)
        THEN Goto(Pop(m), Done)
        ELSE executeStatement(SetTop(m, [fr EXCEPT !.idx = @ + 1]), fr.list[fr.idx + 1])

\* Index of the first statement after idx that is not a function definition, 0 if none.
NextTopLevel(list, idx) ==
    LET rest == {j \in (idx + 1)..Len(list) : list[j].t # "function"}
    IN  IF rest = {} THEN 0 ELSE CHOOSE j \in rest : \A q \in rest : j <= q

\* executeProgram's second pass: after the statement at fr.idx (none when 0).
executeProgramNext(m) ==
    LET fr == Top(m)
        nx == NextTopLevel(fr.list, fr.idx)
    IN  IF (fr.idx > 0 /\ m.returnFlag) \/ nx = 0
        THEN Goto(Pop(m), Returned(NilV, ""))
        ELSE executeStatement(SetTop(m, [fr EXCEPT !.idx = nx]), fr.list[nx])

\* A loop that leaves its scope frame on the stack when it returns.
forExitKeep(m) == Goto(Pop(m), Done)

\* The deferred popScope of executeForStatement, then its return nil.
forExit(m) == Goto([Pop(m) EXCEPT !.scopes = popScope(@)], Done)

\* A loop header that lets one iteration more through than the limit.
forIterateLate(m) ==
    LET fr == Top(m)
        m1 == [m EXCEPT !.iterationCount = @ + 1]
    IN  IF fr.idx <= fr.hi
        THEN IF m1.iterationCount > maxIterations + 1
             THEN Goto(m1, Err("maximum iterations exceeded"))
             ELSE executeBlock(
                      [m1 EXCEPT !.scopes = bindCurrent(@, ToLower(fr.node.variable), IntV(fr.idx)),
                                 !.bodyRuns = @ + 1],
                      fr.node.body)
        ELSE forExit(m)

\* The loop header of executeForStatement with j = Top(m).idx.
forIterate(m) ==
    LET fr == Top(m)
        m1 == [m EXCEPT !.iterationCount = @ + 1]
    IN  IF fr.idx <= fr.hi
        THEN IF m1.iterationCount > maxIterations
             THEN Goto(m1, Err("maximum iterations exceeded"))
             ELSE executeBlock(
                      [m1 EXCEPT !.scopes = bindCurrent(@, ToLower(fr.node.variable), IntV(fr.idx)),
                                 !.bodyRuns = @ + 1],
                      fr.node.body)
        ELSE forExit(m)

\* A loop that continues from the value its variable holds after the body.
forAfterBodyFromVariable(m) ==
    LET fr  == Top(m)
        val == getVariable(m.scopes, ToLower(fr.node.variable))
        nx  == IF val.ok /\ toInt(val.v).ok THEN toInt(val.v).v.n + 1 ELSE fr.idx + 1
    IN  IF m.breakFlag THEN forExit([m EXCEPT !.breakFlag = FALSE])
        ELSE IF m.returnFlag THEN forExit(m)
        ELSE forIterate(SetTop(m, [fr EXCEPT !.idx = nx]))

\* A loop that stands still once the limit is used up, where
\* executeForStatement returns the error.
forAfterBodyWaitsAtLimit(m) ==
    LET fr == Top(m)
    IN  IF m.breakFlag THEN forExit([m EXCEPT !.breakFlag = FALSE])
        ELSE IF m.returnFlag THEN forExit(m)
        ELSE IF fr.idx + 1 <= fr.hi /\ m.iterationCount + 1 > maxIterations THEN m
        ELSE forIterate(SetTop(m, [fr EXCEPT !.idx = @ + 1]))

\* A loop that leaves the break flag set when BREAK ends it.
forAfterBodyKeepBreak(m) ==
    LET fr == Top(m)
    IN  IF m.breakFlag \/ m.returnFlag THEN forExit(m)
        ELSE forIterate(SetTop(m, [fr EXCEPT !.idx = @ + 1]))

\* executeForStatement after the body returned nil.
forAfterBody(m) ==
    LET fr == Top(m)
    IN  IF m.breakFlag THEN forExit([m EXCEPT !.breakFlag = FALSE])
        ELSE IF m.returnFlag THEN forExit(m)
        ELSE forIterate(SetTop(m, [fr EXCEPT !.idx = @ + 1]))

\* A loop that stops one short of its end value.
forEnterExclusive(m, stmt, start, end) ==
    IF ~toInt(start).ok THEN Goto(m, Err("FOR start value must be numeric"))
    ELSE IF ~toInt(end).ok THEN Goto(m, Err("FOR end value must be numeric"))
    ELSE forIterate(
             Push([m EXCEPT !.scopes = pushScope(@)],
                  [Frame("for") EXCEPT !.node = stmt, !.idx = toInt(start).v.n,
                                       !.hi = toInt(end).v.n - 1]))

\* executeForStatement once both bounds are evaluated.
forEnter(m, stmt, start, end) ==
    IF ~toInt(start).ok THEN Goto(m, Err("FOR start value must be numeric"))
    ELSE IF ~toInt(end).ok THEN Goto(m, Err("FOR end value must be numeric"))
    ELSE forIterate(
             Push([m EXCEPT !.scopes = pushScope(@)],
                  [Frame("for") EXCEPT !.node = stmt, !.idx = toInt(start).v.n,
                                       !.hi = toInt(end).v.n]))

\* executeIfStatement after condition k (0: IF, k: the k-th ELSEIF) gave cond.
ifAfterCondition(m, stmt, k, cond) ==
    IF isTruthy(cond)
    THEN executeBlock(m, IF k = 0 THEN stmt.thenBlock ELSE stmt.elseIfClauses[k].block)
    ELSE IF k < Len(stmt.elseIfClauses)
    THEN Goto(Push(m, [Frame("if") EXCEPT !.node = stmt, !.idx = k + 1]),
              Eval(stmt.elseIfClauses[k + 1].condition))
    ELSE IF Len(stmt.elseBlock) > 0
    THEN executeBlock(m, stmt.elseBlock)
    ELSE Goto(m, Done)

\* A LET that binds the name as the source spells it.
letAfterValueAsWritten(m, stmt, value) ==
    Goto([m EXCEPT !.scopes = bindCurrent(@, stmt.name, value)], Done)

\* A LET that updates the nearest frame that binds the name.
letAfterValueOutward(m, stmt, value) ==
    Goto([m EXCEPT !.scopes = setVariable(@, ToLower(stmt.name), value)], Done)

\* executeLetStatement once the value is evaluated: "LET always
\* creates/overwrites in current scope".
letAfterValue(m, stmt, value) ==
    Goto([m EXCEPT !.scopes = bindCurrent(@, ToLower(stmt.name), value)], Done)

\* executeAssignStatement once the right-hand side is evaluated.
assignAfterValue(m, stmt, val, value) ==
    LET name == ToLower(stmt.name)
        sum  == addValues(val, value)
        diff == subtractValues(val, value)
    IN  CASE stmt.operator = "+=" ->
                 IF ~sum.ok THEN Goto(m, Err("cannot add"))
                 ELSE Goto([m EXCEPT !.scopes = setVariable(@, name, sum.v)], Done)
          [] stmt.operator = "-=" ->
                 IF ~diff.ok THEN Goto(m, Err("cannot subtract"))
                 ELSE Goto([m EXCEPT !.scopes = setVariable(@, name, diff.v)], Done)
          [] OTHER -> Goto([m EXCEPT !.scopes = setVariable(@, name, value)], Done)

\* ------------------------------------------------------------------ expressions

\* The host callbacks of the modelled hosts, by id.
\*   one    returns the Go int 1
\*   first  returns its first argument, an error when it has none
HostCall(callback, args) ==
    CASE callback = "one"                    -> Ok(IntV(1))
      [] callback = "first" /\ args # <<>>   -> Ok(args[1])
      [] OTHER                               -> Fail("host callback error")

RECURSIVE bindParams(_, _, _)
bindParams(sc, params, args) ==
    IF params = <<>> THEN sc
    ELSE bindParams(bindCurrent(sc, ToLower(Head(params)), Head(args)), Tail(params), Tail(args))

\* callUserFunction up to the point where the body starts.
callUserFunction(m, fn, args) ==
    IF Len(args) # Len(fn.params) THEN Goto(m, Err("wrong number of arguments"))
    ELSE executeBlock(
             Push([m EXCEPT !.scopes = bindParams(pushScope(@), fn.params, args),
                            !.returnFlag = FALSE,
                            !.returnValue = NilV],
                  [Frame("call") EXCEPT !.node = fn, !.flag = m.returnFlag, !.v = m.returnValue]),
             fn.body)

\* callUserFunction after the body returned nil: the result, the saved return
\* state put back, and the deferred popScope.
callUserFunctionReturn(m) ==
    LET fr == Top(m)
    IN  Goto([Pop(m) EXCEPT !.returnFlag = fr.flag,
                            !.returnValue = fr.v,
                            !.scopes = popScope(@)],
             Val(m.returnValue))

\* A dispatch that looks for a script function before a host callback.
dispatchCallUserFirst(m, expr, args) ==
    LET name == ToLower(expr.name)
        host == HostCall(externalFuncs[name], args)
    IN  IF userFuncs[name].t = "function"
        THEN callUserFunction(m, userFuncs[name], args)
        ELSE IF externalFuncs[name] # NoCallback
        THEN IF host.ok THEN Goto(m, Val(host.v)) ELSE Goto(m, Err(host.err))
        ELSE Goto(m, Err("undefined function"))

\* evaluateCallExpr once the arguments are evaluated.
dispatchCall(m, expr, args) ==
    LET name == ToLower(expr.name)
        host == HostCall(externalFuncs[name], args)
    IN  IF externalFuncs[name] # NoCallback
        THEN IF host.ok THEN Goto(m, Val(host.v)) ELSE Goto(m, Err(host.err))
        ELSE IF userFuncs[name].t = "function"
        THEN callUserFunction(m, userFuncs[name], args)
        ELSE Goto(m, Err("undefined function"))

evaluateCallExpr(m, expr) ==
    IF expr.args = <<>> THEN dispatchCall(m, expr, <<>>)
    ELSE Goto(Push(m, [Frame("args") EXCEPT !.node = expr, !.idx = 1]), Eval(expr.args[1]))

\* The switch of evaluateBinaryExpr on two evaluated operands.
applyBinary(operator, left, right) ==
    CASE operator = "+"   -> addValues(left, right)
      [] operator = "-"   -> subtractValues(left, right)
      [] operator = "*"   -> multiplyValues(left, right)
      [] operator = "/"   -> divideValues(left, right)
      [] operator = "="   -> Ok(BoolV(equalValues(left, right)))
      [] operator = "<>"  -> Ok(BoolV(~equalValues(left, right)))
      [] operator = "<"   -> Ok(BoolV(compareValues(left, right) < 0))
      [] operator = ">"   -> Ok(BoolV(compareValues(left, right) > 0))
      [] operator = "<="  -> Ok(BoolV(compareValues(left, right) <= 0))
      [] operator = ">="  -> Ok(BoolV(compareValues(left, right) >= 0))
      [] operator = "and" -> Ok(BoolV(isTruthy(left) /\ isTruthy(right)))
      [] operator = "or"  -> Ok(BoolV(isTruthy(left) \/ isTruthy(right)))
      [] OTHER            -> Fail("unknown binary operator")

\* The switch of evaluateUnaryExpr on the evaluated operand.
applyUnary(operator, operand) ==
    CASE operator = "-" /\ operand.k = "int"     -> Ok(IntV(-operand.n))
      [] operator = "-" /\ operand.k = "float64" -> Ok(FloatV(-operand.n, operand.d))
      [] operator = "-"                          -> Fail("cannot negate")
      [] operator = "not"                        -> Ok(BoolV(~isTruthy(operand)))
      [] OTHER                                   -> Fail("unknown unary operator")

FromResult(m, r) == IF r.ok THEN Goto(m, Val(r.v)) ELSE Goto(m, Err(r.err))

evaluateExpression(m, expr) ==
    CASE expr.t \in {"int", "float", "string", "bool"} -> Goto(m, Val(expr.value))
      [] expr.t = "ident"  -> FromResult(m, getVariable(m.scopes, ToLower(expr.name)))
      [] expr.t = "binary" -> Goto(Push(m, [Frame("binL") EXCEPT !.node = expr]), Eval(expr.left))
      [] expr.t = "unary"  -> Goto(Push(m, [Frame("unary") EXCEPT !.node = expr]), Eval(expr.operand))
      [] expr.t = "call"   -> evaluateCallExpr(m, expr)
      [] OTHER             -> Goto(m, Err("unknown expression type"))

\* An AND or OR that leaves its right operand alone when the left one decides.
binaryAfterLeftShortCircuit(m, left) ==
    LET fr == Top(m)
    IN  IF fr.node.operator = "and" /\ ~isTruthy(left) THEN Goto(Pop(m), Val(BoolV(FALSE)))
        ELSE IF fr.node.operator = "or" /\ isTruthy(left) THEN Goto(Pop(m), Val(BoolV(TRUE)))
        ELSE Goto(SetTop(m, [fr EXCEPT !.f = "binR", !.v = left]), Eval(fr.node.right))

\* evaluateBinaryExpr once the left operand is evaluated: the right one is next.
binaryAfterLeft(m, left) ==
    LET fr == Top(m)
    IN  Goto(SetTop(m, [fr EXCEPT !.f = "binR", !.v = left]), Eval(fr.node.right))

\* ------------------------------------------------------------------ returns

\* An expression returned the value m.ctl.v to the activation on top.
continueValue(m) ==
    LET fr == Top(m)
        v  == m.ctl.v
        p  == Pop(m)
    IN  CASE fr.f = "let"      -> letAfterValue(p, fr.node, v)
          [] fr.f = "assign"   -> assignAfterValue(p, fr.node, fr.v, v)
          [] fr.f = "if"       -> ifAfterCondition(p, fr.node, fr.idx, v)
          [] fr.f = "forStart" ->
                 Goto(SetTop(m, [fr EXCEPT !.f = "forEnd", !.v = v]), Eval(fr.node.end))
          [] fr.f = "forEnd"   -> forEnter(p, fr.node, fr.v, v)
          [] fr.f = "return"   ->
                 Goto([p EXCEPT !.returnValue = v, !.returnFlag = TRUE], Done)
          [] fr.f = "print"    -> Goto([p EXCEPT !.out = Append(@, v)], Done)
          [] fr.f = "expr"     -> Goto(p, Done)
          [] fr.f = "binL"     -> binaryAfterLeft(m, v)
          [] fr.f = "binR"     -> FromResult(p, applyBinary(fr.node.operator, fr.v, v))
          [] fr.f = "unary"    -> FromResult(p, applyUnary(fr.node.operator, v))
          [] fr.f = "args"     ->
                 IF fr.idx < Len(fr.node.args)
                 THEN Goto(SetTop(m, [fr EXCEPT !.idx = @ + 1, !.vals = Append(@, v)]),
                           Eval(fr.node.args[fr.idx + 1]))
                 ELSE dispatchCall(p, fr.node, Append(fr.vals, v))
          [] OTHER -> Goto(m, Err("value returned to a statement frame"))

\* A statement returned nil to the activation on top.
continueDone(m) ==
    LET fr == Top(m)
    IN  CASE fr.f = "block"     -> executeBlockNext(m)
          [] fr.f = "program"   -> executeProgramNext(m)
          [] fr.f = "for"       -> forAfterBody(m)
          [] fr.f = "call"      -> callUserFunctionReturn(m)
          [] fr.f = "callEntry" -> Goto(Pop(m), Returned(m.returnValue, ""))
          [] OTHER -> Goto(m, Err("nil returned to an expression frame"))

\* Only the function call pops its frame when an error returns through it.
DeferredCallOnly(fr) == fr.f \in {"call"}

\* Frames whose Go function registered `defer i.popScope()`.
Deferred(fr) == fr.f \in {"for", "call"}

\* An error returns through the activation on top: its deferred popScope
\* runs; the entry point returns the error when it was the outermost.
propagateError(m) ==
    LET fr == Top(m)
        p  == [Pop(m) EXCEPT !.scopes = IF Deferred(fr) THEN popScope(@) ELSE @]
    IN  IF p.stack = <<>> THEN Goto(p, Returned(NilV, m.ctl.err)) ELSE p

\* ------------------------------------------------------------------ lexer

\* The input of the tokenizer is a sequence of one-character strings.  A
\* Tokenizer record holds the fields of the Go struct, the position of the
\* control inside NextToken (pc), the locals of scanString (builder,
\* startLine), and the slice and the error of the ScanAll that drives it.

NoTokenizer == [pc |-> "none"]

NoLexError == [line |-> 0, column |-> 0, message |-> ""]

IsDigit(ch) == ch \in {"0", "1", "2", "3", "4", "5", "6", "7", "8", "9"}

IsLetter(ch) == ch \in {"a", "e", "n", "o", "r", "t", "A", "O", "R"}

LowerRune(ch) ==
    CASE ch = "A" -> "a"
      [] ch = "O" -> "o"
      [] ch = "R" -> "r"
      [] OTHER    -> ch

LookupKeyword(ident) ==
    CASE ident = <<"o", "r">>      -> "OR"
      [] ident = <<"t", "o">>      -> "TO"
      [] ident = <<"a", "n", "d">> -> "AND"
      [] ident = <<"n", "o", "t">> -> "NOT"
      [] OTHER                     -> "IDENTIFIER"

NewTokenizer(input) ==
    [pc |-> "NextToken", input |-> input, pos |-> 0, line |-> 1, column |-> 1,
     start |-> 0, startCol |-> 1, builder |-> <<>>, startLine |-> 1,
     tokens |-> <<>>, err |-> NoLexError]

isAtEnd(t) == t.pos >= Len(t.input)

peek(t) == IF isAtEnd(t) THEN "" ELSE t.input[t.pos + 1]

advance(t) == [t EXCEPT !.pos = @ + 1, !.column = @ + 1]

match(t, expected) == ~isAtEnd(t) /\ t.input[t.pos + 1] = expected

makeToken(t, tokenType, value) ==
    [Type |-> tokenType, Value |-> value, Line |-> t.line, Column |-> t.startCol]

Lexeme(t) == SubSeq(t.input, t.start + 1, t.pos)

\* The body of ScanAll's loop for a token NextToken returned: a comment is
\* dropped, any other token is appended, and EOF ends the loop.
ScanAllKeepingComments(t, tok) ==
    IF tok.Type = "EOF"
    THEN [t EXCEPT !.tokens = Append(@, tok), !.pc = "returned"]
    ELSE [t EXCEPT !.tokens = Append(@, tok), !.pc = "NextToken"]

ScanAll(t, tok) ==
    IF tok.Type = "COMMENT"
    THEN [t EXCEPT !.pc = "NextToken"]
    ELSE IF tok.Type = "EOF"
         THEN [t EXCEPT !.tokens = Append(@, tok), !.pc = "returned"]
         ELSE [t EXCEPT !.tokens = Append(@, tok), !.pc = "NextToken"]

\* NextToken returned an error: ScanAll returns nil and the error.
ScanAllError(t, message) ==
    [t EXCEPT !.tokens = <<>>,
              !.err = [line |-> t.line, column |-> t.startCol, message |-> message],
              !.pc = "returned"]

\* The switch of NextToken over operators and delimiters; t has consumed ch.
scanOperator(t, ch) ==
    CASE ch = "(" -> ScanAll(t, makeToken(t, "LPAREN", <<"(">>))
      [] ch = ")" -> ScanAll(t, makeToken(t, "RPAREN", <<")">>))
      [] ch = "," -> ScanAll(t, makeToken(t, "COMMA", <<",">>))
      [] ch = ":" -> ScanAll(t, makeToken(t, "COLON", <<":">>))
      [] ch = "*" -> ScanAll(t, makeToken(t, "STAR", <<"*">>))
      [] ch = "/" -> ScanAll(t, makeToken(t, "SLASH", <<"/">>))
      [] ch = "+" ->
            IF match(t, "+")
            THEN ScanAll(advance(t), makeToken(t, "PLUS_PLUS", <<"+", "+">>))
            ELSE IF match(t, "=")
                 THEN ScanAll(advance(t), makeToken(t, "PLUS_EQ", <<"+", "=">>))
                 ELSE ScanAll(t, makeToken(t, "PLUS", <<"+">>))
      [] ch = "-" ->
            IF match(t, "-")
            THEN ScanAll(advance(t), makeToken(t, "MINUS_MINUS", <<"-", "-">>))
            ELSE IF match(t, "=")
                 THEN ScanAll(advance(t), makeToken(t, "MINUS_EQ", <<"-", "=">>))
                 ELSE ScanAll(t, makeToken(t, "MINUS", <<"-">>))
      [] ch = "=" -> ScanAll(t, makeToken(t, "EQ", <<"=">>))
      [] ch = "<" ->
            IF match(t, "=")
            THEN ScanAll(advance(t), makeToken(t, "LTE", <<"<", "=">>))
            ELSE IF match(t, ">")
                 THEN ScanAll(advance(t), makeToken(t, "NEQ", <<"<", ">">>))
                 ELSE ScanAll(t, makeToken(t, "LT", <<"<">>))
      [] ch = ">" ->
            IF match(t, "=")
            THEN ScanAll(advance(t), makeToken(t, "GTE", <<">", "=">>))
            ELSE ScanAll(t, makeToken(t, "GT", <<">">>))
      [] ch = "!" ->
            IF match(t, "=")
            THEN ScanAll(advance(t), makeToken(t, "NEQ", <<"!", "=">>))
            ELSE ScanAllError(t, "unexpected character '!'")
      [] OTHER -> ScanAllError(t, "unexpected character")

\* One round of skipWhitespace's loop.
SkipWhitespace ==
    /\ tokenizer.pc = "NextToken"
    /\ peek(tokenizer) \in {" ", "\t", "\r"}
    /\ tokenizer' = advance(tokenizer)
    /\ UNCHANGED <<interpreterVars, parser>>

\* NextToken after skipWhitespace, up to the scanner it enters or the token
\* it returns to ScanAll.
NextToken ==
    /\ tokenizer.pc = "NextToken"
    /\ peek(tokenizer) \notin {" ", "\t", "\r"}
    /\ LET t0 == [tokenizer EXCEPT !.start = tokenizer.pos,
                                   !.startCol = tokenizer.column]
           ch == peek(t0)
           t1 == advance(t0)
       IN  tokenizer' =
             IF isAtEnd(t0) THEN ScanAll(t0, makeToken(t0, "EOF", <<>>))
             ELSE CASE ch = "#"  -> [t1 EXCEPT !.pc = "scanComment"]
                    [] ch = "\n" ->
                          ScanAll([t1 EXCEPT !.line = @ + 1, !.column = 1],
                                  makeToken(t1, "NEWLINE", <<"\\", "n">>))
                    [] ch = "\"" ->
                          [t1 EXCEPT !.pc = "scanString", !.builder = <<>>,
                                     !.startLine = t1.line]
                    [] IsDigit(ch) -> [t1 EXCEPT !.pc = "scanNumber"]
                    [] ~IsDigit(ch) /\ (IsLetter(ch) \/ ch = "_") ->
                          [t1 EXCEPT !.pc = "scanIdentifier"]
                    [] OTHER -> scanOperator(t1, ch)
    /\ UNCHANGED <<interpreterVars, parser>>

\* One round of scanComment's loop, or its return when the line ends.
ScanComment ==
    /\ tokenizer.pc = "scanComment"
    /\ tokenizer' =
          IF ~isAtEnd(tokenizer) /\ peek(tokenizer) # "\n"
          THEN advance(tokenizer)
          ELSE ScanAll(tokenizer, makeToken(tokenizer, "COMMENT", Lexeme(tokenizer)))
    /\ UNCHANGED <<interpreterVars, parser>>

Unescape(escaped) ==
    CASE escaped = "n" -> "\n"
      [] escaped = "t" -> "\t"
      [] escaped = "r" -> "\r"
      [] OTHER         -> escaped

\* One round of scanString's loop, or its return.
ScanString ==
    /\ tokenizer.pc = "scanString"
    /\ LET t  == tokenizer
           ch == peek(t)
           t1 == advance(t)
       IN  tokenizer' =
             IF isAtEnd(t) THEN ScanAllError(t, "unterminated string")
             ELSE CASE ch = "\n" -> ScanAllError(t, "unterminated string")
                    [] ch = "\"" ->
                          ScanAll(t1, [Type |-> "STRING", Value |-> t.builder,
                                       Line |-> t.startLine, Column |-> t.startCol])
                    [] ch = "\\" ->
                          IF isAtEnd(t1)
                          THEN ScanAllError(t1, "unterminated string escape")
                          ELSE [advance(t1) EXCEPT
                                   !.builder = Append(@, Unescape(peek(t1)))]
                    [] OTHER -> [t1 EXCEPT !.builder = Append(@, ch)]
    /\ UNCHANGED <<interpreterVars, parser>>

\* One round of scanNumber's first loop, or what follows it: the decimal
\* point of a float, or the INT token.
ScanNumber ==
    /\ tokenizer.pc = "scanNumber"
    /\ LET t == tokenizer
       IN  tokenizer' =
             IF ~isAtEnd(t) /\ IsDigit(peek(t)) THEN advance(t)
             ELSE IF /\ ~isAtEnd(t)
                     /\ peek(t) = "."
                     /\ t.pos + 1 < Len(t.input)
                     /\ IsDigit(t.input[t.pos + 2])
                  THEN [advance(t) EXCEPT !.pc = "scanFraction"]
                  ELSE ScanAll(t, makeToken(t, "INT", Lexeme(t)))
    /\ UNCHANGED <<interpreterVars, parser>>

\* One round of scanNumber's second loop, or the FLOAT token.
ScanFraction ==
    /\ tokenizer.pc = "scanFraction"
    /\ tokenizer' =
          IF ~isAtEnd(tokenizer) /\ IsDigit(peek(tokenizer))
          THEN advance(tokenizer)
          ELSE ScanAll(tokenizer, makeToken(tokenizer, "FLOAT", Lexeme(tokenizer)))
    /\ UNCHANGED <<interpreterVars, parser>>

\* One round of scanIdentifier's loop, or the keyword or identifier token.
ScanIdentifier ==
    /\ tokenizer.pc = "scanIdentifier"
    /\ LET t     == tokenizer
           ch    == peek(t)
           value == Lexeme(t)
           lower == [i \in 1..Len(value) |-> LowerRune(value[i])]
       IN  tokenizer' =
             IF ~isAtEnd(t) /\ (IsLetter(ch) \/ IsDigit(ch) \/ ch = "_")
             THEN advance(t)
             ELSE ScanAll(t, makeToken(t, LookupKeyword(lower), value))
    /\ UNCHANGED <<interpreterVars, parser>>

\* ------------------------------------------------------------------ parser

\* A Parser record holds the fields of the Go struct; a parse function takes
\* the parser and gives the parser it leaves with the expression or the error
\* it returns.  The variable parser holds the token slice before Parse
\* (pc "new") and what parsePrintStatement returned after it (pc "returned").

NoParser == [pc |-> "none"]

precNone       == 0
precOr         == 1
precAnd        == 2
precEquality   == 3
precComparison == 4
precTerm       == 5
precFactor     == 6
precUnary      == 7
precCall       == 8

\* The zero Token: its Type is the first constant, TOKEN_EOF.
ZeroToken == [Type |-> "EOF", Value |-> <<>>, Line |-> 0, Column |-> 0]

NewParser(tokens) ==
    [tokens |-> tokens, pos |-> 0,
     current |-> IF Len(tokens) > 0 THEN tokens[1] ELSE ZeroToken]

parserAdvance(p) ==
    IF p.pos + 1 < Len(p.tokens)
    THEN [p EXCEPT !.pos = @ + 1, !.current = p.tokens[p.pos + 2]]
    ELSE [p EXCEPT !.pos = @ + 1]

Parsed(p, expr) == [p |-> p, expr |-> expr, err |-> ""]

parserError(p, message) == [p |-> p, expr |-> NoExpr, err |-> message]

\* The operator of a BinaryExpr or UnaryExpr is the token type; the AST of
\* this module writes it as the evaluator's switch reads it.
Operator(tokenType) ==
    CASE tokenType = "OR"    -> "or"
      [] tokenType = "AND"   -> "and"
      [] tokenType = "NOT"   -> "not"
      [] tokenType = "EQ"    -> "="
      [] tokenType = "NEQ"   -> "<>"
      [] tokenType = "LT"    -> "<"
      [] tokenType = "GT"    -> ">"
      [] tokenType = "LTE"   -> "<="
      [] tokenType = "GTE"   -> ">="
      [] tokenType = "PLUS"  -> "+"
      [] tokenType = "MINUS" -> "-"
      [] tokenType = "STAR"  -> "*"
      [] tokenType = "SLASH" -> "/"
      [] OTHER               -> tokenType

getInfixPrecedenceFlat(p) ==
    CASE p.current.Type \in {"OR", "AND", "EQ", "NEQ", "LT", "GT", "LTE", "GTE",
                             "PLUS", "MINUS", "STAR", "SLASH"} -> precOr
      [] OTHER -> precNone

getInfixPrecedence(p) ==
    CASE p.current.Type = "OR"                         -> precOr
      [] p.current.Type = "AND"                        -> precAnd
      [] p.current.Type \in {"EQ", "NEQ"}              -> precEquality
      [] p.current.Type \in {"LT", "GT", "LTE", "GTE"} -> precComparison
      [] p.current.Type \in {"PLUS", "MINUS"}          -> precTerm
      [] p.current.Type \in {"STAR", "SLASH"}          -> precFactor
      [] OTHER                                         -> precNone

\* strconv.ParseInt(value, 10, 64) on the digits the tokenizer scanned.
RECURSIVE ParseInt(_)
ParseInt(digits) ==
    IF digits = <<>> THEN 0
    ELSE LET last == digits[Len(digits)]
             d    == CHOOSE n \in 0..9 :
                        <<"0", "1", "2", "3", "4", "5", "6", "7", "8", "9">>[n + 1] = last
         IN  10 * ParseInt(SubSeq(digits, 1, Len(digits) - 1)) + d

RECURSIVE parsePrecedence(_, _)
RECURSIVE parseInfix(_, _, _)
RECURSIVE parseUnary(_)
RECURSIVE parsePrimary(_)

parseExpression(p) == parsePrecedence(p, precOr)

\* parsePrecedence up to its loop.
parsePrecedence(p, minPrec) ==
    LET l == parseUnary(p)
    IN  IF l.err # "" THEN l ELSE parseInfix(l.p, l.expr, minPrec)

\* The loop of parsePrecedence, with left as it stands.
parseInfix(p, left, minPrec) ==
    LET prec == getInfixPrecedence(p)
        op   == p.current.Type
        r    == parsePrecedence(parserAdvance(p), prec + 1)
    IN  IF prec < minPrec THEN Parsed(p, left)
        ELSE IF r.err # "" THEN r
        ELSE parseInfix(r.p, BinaryExpr(left, Operator(op), r.expr), minPrec)

parseUnary(p) ==
    IF p.current.Type \in {"NOT", "MINUS"}
    THEN LET o == parseUnary(parserAdvance(p))
         IN  IF o.err # "" THEN o
             ELSE Parsed(o.p, UnaryExpr(Operator(p.current.Type), o.expr))
    ELSE parsePrimary(p)

\* parseCall over parsePrimary; the token inputs of this module hold no call
\* and no FLOAT token, so an identifier is never followed by "(" and
\* strconv.ParseFloat is never reached.
parsePrimary(p) ==
    CASE p.current.Type = "INT" ->
            Parsed(parserAdvance(p), IntLiteral(ParseInt(p.current.Value)))
      [] p.current.Type = "STRING" ->
            Parsed(parserAdvance(p), [t |-> "string", value |-> p.current.Value])
      [] p.current.Type = "TRUE" ->
            Parsed(parserAdvance(p), BoolLiteral(TRUE))
      [] p.current.Type = "FALSE" ->
            Parsed(parserAdvance(p), BoolLiteral(FALSE))
      [] p.current.Type = "IDENTIFIER" ->
            Parsed(parserAdvance(p), Identifier(p.current.Value))
      [] p.current.Type = "LPAREN" ->
            LET e == parseExpression(parserAdvance(p))
            IN  IF e.err # "" THEN e
                ELSE IF e.p.current.Type # "RPAREN"
                     THEN parserError(e.p, "expected ')' after expression")
                     ELSE Parsed(parserAdvance(e.p), e.expr)
      [] OTHER -> parserError(p, "unexpected token in expression")

\* parsePrintStatement: PRINT is consumed and the expression parsed.
parsePrintStatement(p) == parseExpression(parserAdvance(p))

\* Parse of the token slice of one PRINT statement, as far as the statement.
ParsePrint ==
    /\ parser.pc = "new"
    /\ LET r == parsePrintStatement(NewParser(parser.tokens))
       IN  parser' = [pc |-> "returned", tokens |-> parser.tokens,
                      pos |-> r.p.pos, current |-> r.p.current,
                      expr |-> r.expr, err |-> r.err]
    /\ UNCHANGED <<interpreterVars, tokenizer>>

\* ------------------------------------------------------------------ host scenarios

\* Each behaviour follows one host scenario: the entry points the host
\* makes are drawn from that scenario's inputs.
Suites == {"load", "locals", "loops", "control", "cache",
           "forloop", "span", "scoping", "returns", "host", "compound",
           "names", "divide", "recursion", "logic", "loopbody"}

RunCodes(s) ==
    CASE s = "load"    -> {"top"}
      [] s = "locals"  -> {}
      [] s = "loops"   -> {"loops"}
      [] s = "control" -> {"flags", "exits"}
      [] s = "cache"   -> {"counter", "bump", "flags", "badlex", "badparse"}
      [] s = "forloop" -> {"leak", "shadow", "nested"}
      [] s = "scoping" -> {"capture", "let", "assign"}
      [] s = "returns" -> {"returns"}
      [] s = "host"    -> {"host", "arith"}
      [] s = "names"   -> {"case"}
      [] s = "divide"  -> {"divlit", "divfloat"}
      [] s = "recursion" -> {"factorial", "fact"}
      [] s = "logic"   -> {"logic"}
      [] s = "loopbody" -> {"stray", "strayif", "reassign"}
      [] OTHER         -> {}

LoadCodes(s) ==
    CASE s = "load"    -> {"top", "counter"}
      [] s = "locals"  -> {"locals"}
      [] s = "cache"   -> {"badlex", "badparse"}
      [] s = "span"    -> {"span"}
      [] s = "compound" -> {"compound"}
      [] s = "divide"  -> {"div"}
      [] OTHER         -> {}

ValidateCodes(s) ==
    CASE s = "cache"   -> {"badlex", "badparse", "top"}
      [] OTHER         -> {}

CallInput(name, args) == [name |-> name, args |-> args]

Calls(s) ==
    CASE s = "load"    -> {CallInput("TEST", <<>>), CallInput("increment", <<>>),
                           CallInput("increment", <<IntV(1)>>), CallInput("missing", <<>>)}
      [] s = "locals"  -> {CallInput("setAndGet", <<IntV(7)>>), CallInput("tryGetX", <<>>),
                           CallInput("tryGetY", <<>>), CallInput("tryGetP", <<>>)}
      [] s = "loops"   -> {CallInput("inner", <<IntV(2)>>)}
      [] s = "control" -> {CallInput("early", <<IntV(1), IntV(0)>>),
                           CallInput("early", <<IntV(0), IntV(1)>>),
                           CallInput("early", <<IntV(0), IntV(0)>>),
                           CallInput("ping", <<>>),
                           CallInput("ping", <<IntV(1)>>),
                           CallInput("missing", <<>>)}
      [] s = "span"    -> {CallInput("span", <<IntV(1), IntV(3)>>),
                           CallInput("span", <<IntV(2), IntV(2)>>),
                           CallInput("span", <<IntV(2), IntV(1)>>),
                           CallInput("span", <<IntV(2), IntV(0)>>)}
      [] s = "returns" -> {CallInput("give", <<>>), CallInput("none", <<>>),
                           CallInput("both", <<>>)}
      [] s = "compound" -> {CallInput("inc", <<StrV("ab")>>),
                            CallInput("inc", <<BoolV(TRUE)>>),
                            CallInput("inc", <<NilV>>),
                            CallInput("dec", <<StrV("ab")>>),
                            CallInput("addto", <<StrV("ab"), IntV(1)>>),
                            CallInput("addto", <<NilV, StrV("s")>>),
                            CallInput("subfrom", <<StrV("ab"), IntV(1)>>),
                            CallInput("inc", <<IntV(1)>>)}
      [] s = "divide"  -> {CallInput("div", <<IntV(1), IntV(0)>>),
                           CallInput("div", <<FloatV(3, 2), FloatV(0, 1)>>),
                           CallInput("div", <<StrV("s"), IntV(0)>>),
                           CallInput("div", <<IntV(0), FloatV(0, 1)>>),
                           CallInput("div", <<IntV(6), IntV(3)>>)}
      [] OTHER         -> {}

Limits(s) == IF s = "loops" THEN 0..MaxLimit ELSE {}

Registrations(s) ==
    CASE s = "load" -> {"GetOne", "Test"}
      [] s = "host" -> {"Echo"}
      [] s = "names" -> {"GetValue"}
      [] s = "logic" -> {"Echo"}
      [] OTHER      -> {}

\* The callback the host registers under a name.
CallbackOf(name) == IF name = "Echo" THEN "first" ELSE "one"

\* ------------------------------------------------------------------ entry points

Idle == ctl.m = "idle"

CanStart == Idle /\ Len(hist) < MaxOps

\* What the host asked for, with the global frame and the limit it started from.
Entry(op, code, name, args) ==
    [n |-> Len(hist) + 1, op |-> op, code |-> code, name |-> name, args |-> args,
     globals0 |-> scopes[1], limit |-> maxIterations, externals |-> externalFuncs]

\* An entry point that has returned: what it returned and what it did.
Completed(entry, m) ==
    [e |-> entry, ok |-> m.ctl.err = "", err |-> m.ctl.err, v |-> m.ctl.v,
     out |-> m.out, stmts |-> m.stmts, bodyRuns |-> m.bodyRuns]

\* The observers of a new entry point start empty.
BeginEntry(m) == [m EXCEPT !.out = <<>>, !.stmts = 0, !.bodyRuns = 0, !.stack = <<>>]

Install(m, entry) ==
    /\ scopes' = m.scopes
    /\ iterationCount' = m.iterationCount
    /\ breakFlag' = m.breakFlag
    /\ returnFlag' = m.returnFlag
    /\ returnValue' = m.returnValue
    /\ stack' = m.stack
    /\ ctl' = m.ctl
    /\ out' = m.out
    /\ stmts' = m.stmts
    /\ bodyRuns' = m.bodyRuns
    /\ cur' = entry
    /\ hist' = IF m.ctl.m = "idle" THEN Append(hist, Completed(entry, m)) ELSE hist
    /\ UNCHANGED <<tokenizer, parser>>

\* The entry point returns (v, err) without touching the execution state.
ReturnNow(v, err) == Goto(BeginEntry(M), Returned(v, err))

\* A reset that leaves the return flag and the return value as they were.
resetExecutionStateNoReturn(m) ==
    [m EXCEPT !.iterationCount = 0, !.breakFlag = FALSE]

\* executeProgram: "Reset execution state".
resetExecutionState(m) ==
    [m EXCEPT !.iterationCount = 0, !.breakFlag = FALSE, !.returnFlag = FALSE,
              !.returnValue = NilV]

\* executeProgram after the first pass: the second pass is about to start.
executeProgram(prog) ==
    Goto(Push(resetExecutionState(BeginEntry(M)), [Frame("program") EXCEPT !.list = prog]),
         Done)

\* A load that adds to the function table instead of rebuilding it.
loadFunctionsKept(funcs, prog) == collectFunctions(funcs, prog)

\* Load: "Reset user functions and collect from this program".
loadFunctions(funcs, prog) == collectFunctions(EmptyFuncs, prog)

\* executeProgram: the reset of userFuncs and the first pass.
programFunctions(funcs, prog) == collectFunctions(EmptyFuncs, prog)

Interpret(code) ==
    /\ CanStart
    /\ code \in RunCodes(suite)
    /\ LET got == getOrParseProgram(astCache, code)
       IN  IF ~got.ok
           THEN /\ Install(ReturnNow(NilV, got.err), Entry("run", code, "", <<>>))
                /\ UNCHANGED <<astCache, userFuncs>>
           ELSE /\ astCache' = got.cache
                /\ userFuncs' = programFunctions(userFuncs, got.prog)
                /\ Install(executeProgram(got.prog), Entry("run", code, "", <<>>))
    /\ UNCHANGED <<externalFuncs, maxIterations, suite>>

Load(code) ==
    /\ CanStart
    /\ code \in LoadCodes(suite)
    /\ LET got == getOrParseProgram(astCache, code)
       IN  IF ~got.ok
           THEN /\ Install(ReturnNow(NilV, got.err), Entry("load", code, "", <<>>))
                /\ UNCHANGED <<astCache, userFuncs>>
           ELSE /\ astCache' = got.cache
                /\ userFuncs' = loadFunctions(userFuncs, got.prog)
                /\ Install(ReturnNow(NilV, ""), Entry("load", code, "", <<>>))
    /\ UNCHANGED <<externalFuncs, maxIterations, suite>>

Validate(code) ==
    /\ CanStart
    /\ code \in ValidateCodes(suite)
    /\ LET got == getOrParseProgram(astCache, code)
       IN  /\ astCache' = got.cache
           /\ Install(ReturnNow(NilV, got.err), Entry("validate", code, "", <<>>))
    /\ UNCHANGED <<externalFuncs, userFuncs, maxIterations, suite>>

\* A reset that forgets the flags.
callResetCounterOnly(m) ==
    [m EXCEPT !.iterationCount = 0, !.returnValue = NilV]

\* A reset that keeps the return value of the call before.
callResetKeepValue(m) ==
    [m EXCEPT !.iterationCount = 0, !.breakFlag = FALSE, !.returnFlag = FALSE]

\* Call: "Reset execution state for this call".
callReset(m) ==
    [m EXCEPT !.iterationCount = 0, !.breakFlag = FALSE, !.returnFlag = FALSE,
              !.returnValue = NilV]

\* A call that binds its parameters in the global frame it found.
callScopeKept(sc, fn, args) == bindParams(<<sc[1]>>, fn.params, args)

\* Call: "Start with fresh scope", then the parameters bound in it.
callScope(sc, fn, args) == bindParams(<<EmptyFrame>>, fn.params, args)

\* Call from the reset to the start of the body.
callBody(fn, args) ==
    executeBlock(
        Push([callReset(BeginEntry(M)) EXCEPT !.scopes = callScope(@, fn, args)],
             Frame("callEntry")),
        fn.body)

\* Call's two checks: the error it returns before anything is reset, "" if none.
callCheck(fn, args) ==
    IF fn.t # "function" THEN "undefined function"
    ELSE IF Len(args) # Len(fn.params) THEN "wrong number of arguments"
    ELSE ""

\* A call that resets the execution state before its checks.
callFailAfterReset(err) == Goto(callReset(BeginEntry(M)), Returned(NilV, err))

\* Call returning the error of a failed check.
callFail(err) == ReturnNow(NilV, err)

Call(funcName, args) ==
    /\ CanStart
    /\ CallInput(funcName, args) \in Calls(suite)
    /\ LET fn == userFuncs[ToLower(funcName)]
       IN  IF callCheck(fn, args) # ""
           THEN Install(callFail(callCheck(fn, args)), Entry("call", "", funcName, args))
           ELSE Install(callBody(fn, args), Entry("call", "", funcName, args))
    /\ UNCHANGED <<externalFuncs, userFuncs, astCache, maxIterations, suite>>

RegisterFunction(name) ==
    /\ Idle
    /\ name \in Registrations(suite)
    /\ externalFuncs' = [externalFuncs EXCEPT ![ToLower(name)] = CallbackOf(name)]
    /\ UNCHANGED <<userFuncs, scopes, astCache, maxIterations, iterationCount, breakFlag,
                   returnFlag, returnValue, stack, ctl, out, stmts, bodyRuns, cur, hist, suite,
                   tokenizer, parser>>

SetMaxIterations(max) ==
    /\ Idle
    /\ max \in Limits(suite)
    /\ maxIterations' = max
    /\ UNCHANGED <<externalFuncs, userFuncs, scopes, astCache, iterationCount, breakFlag,
                   returnFlag, returnValue, stack, ctl, out, stmts, bodyRuns, cur, hist, suite,
                   tokenizer, parser>>

\* ------------------------------------------------------------------ steps of a running entry point

Running == UNCHANGED <<externalFuncs, userFuncs, astCache, maxIterations, suite>>

EvaluateExpression ==
    /\ ctl.m = "eval"
    /\ Install(evaluateExpression(M, ctl.e), cur)
    /\ Running

ContinueValue ==
    /\ ctl.m = "val"
    /\ Install(continueValue(M), cur)
    /\ Running

ContinueDone ==
    /\ ctl.m = "ok"
    /\ Install(continueDone(M), cur)
    /\ Running

PropagateError ==
    /\ ctl.m = "err"
    /\ Install(propagateError(M), cur)
    /\ Running

\* ------------------------------------------------------------------ specification

\* NewInterpreter.
NewInterpreter ==
    /\ externalFuncs = EmptyExternals
    /\ userFuncs = EmptyFuncs
    /\ scopes = <<EmptyFrame>>
    /\ astCache = EmptyCache
    /\ maxIterations = MaxIterations
    /\ iterationCount = 0
    /\ breakFlag = FALSE
    /\ returnFlag = FALSE
    /\ returnValue = NilV
    /\ stack = <<>>
    /\ ctl = Returned(NilV, "")
    /\ out = <<>>
    /\ stmts = 0
    /\ bodyRuns = 0
    /\ cur = [n |-> 0, op |-> "new", code |-> "", name |-> "", args |-> <<>>,
              globals0 |-> EmptyFrame, limit |-> MaxIterations, externals |-> EmptyExternals]
    /\ hist = <<>>

\* A new interpreter and the host scenario; no tokenizer or parser runs on
\* its own.
Init ==
    /\ NewInterpreter
    /\ suite \in Suites
    /\ tokenizer = NoTokenizer
    /\ parser = NoParser

Next ==
    \/ \E code \in Codes : Interpret(code)
    \/ \E code \in Codes : Load(code)
    \/ \E code \in Codes : Validate(code)
    \/ \E s \in Suites : \E c \in Calls(s) : Call(c.name, c.args)
    \/ \E name \in {"GetOne", "Test", "Echo", "GetValue"} : RegisterFunction(name)
    \/ \E max \in 0..MaxLimit : SetMaxIterations(max)
    \/ EvaluateExpression
    \/ ContinueValue
    \/ ContinueDone
    \/ PropagateError

Spec == Init /\ [][Next]_vars

\* Tokenize(input): NewTokenizer(input).ScanAll(), alone, for every input.
InitLex ==
    /\ NewInterpreter
    /\ suite = "lexer"
    /\ parser = NoParser
    /\ \E input \in Inputs : tokenizer = NewTokenizer(input)

NextLex ==
    \/ SkipWhitespace
    \/ NextToken
    \/ ScanComment
    \/ ScanString
    \/ ScanNumber
    \/ ScanFraction
    \/ ScanIdentifier

\* An entry point runs on the host's goroutine until it returns: while one
\* is running its next step is taken.
Step == EvaluateExpression \/ ContinueValue \/ ContinueDone \/ PropagateError

SpecRun == Spec /\ WF_vars(Step)

\* Parse of one PRINT statement, alone, for every expression.
InitParse ==
    /\ NewInterpreter
    /\ suite = "parser"
    /\ tokenizer = NoTokenizer
    /\ \E e \in ExprInputs : parser = [pc |-> "new", tokens |-> PrintTokens(e)]

NextParse == ParsePrint

SpecParse == InitParse /\ [][NextParse]_vars

\* ScanAll is one sequential loop: a step that can be taken is taken.
SpecLex == InitLex /\ [][NextLex]_vars /\ WF_vars(NextLex)


\* ------------------------------------------------------------------ what the entry points did

Last == hist[Len(hist)]

\* The source text lexes and parses.
Parses(code) == Tokenize(code).ok /\ Parse(Tokenize(code).tokens).ok

ProgramOf(code) == Parse(Tokenize(code).tokens).prog

\* The top-level statements of prog that are not function definitions.
TopLevel(prog) == {j \in 1..Len(prog) : prog[j].t # "function"}

\* The lowercased names of the top-level functions of prog.
FunctionNames(prog) == {ToLower(prog[j].name) : j \in {q \in 1..Len(prog) : prog[q].t = "function"}}

\* An entry point is executing and has not started a statement yet.
AtFirstStatement == ~Idle /\ stmts = 0

IterationBound == "maximum iterations exceeded"

\* ------------------------------------------------------------------ C1

\* C1 (as stated): a load that returned without error executed every
\* top-level statement of its program that is not a function definition, so
\* the print of the program "top" reached the sink during the load.
C1_LoadExecutesTopLevel ==
    \A i \in 1..Len(hist) :
        (hist[i].e.op = "load" /\ hist[i].ok) =>
            /\ hist[i].stmts >= Cardinality(TopLevel(ProgramOf(hist[i].e.code)))
            /\ (hist[i].e.code = "top" => hist[i].out = <<StrV("top")>>)

\* ------------------------------------------------------------------ C2

\* C2 (as stated): after a successful load of the program "counter", the
\* k-th of k successive calls of increment returns k.
C2_CounterPersists ==
    \A i \in 1..Len(hist) : \A k \in 1..MaxOps :
        ( /\ i + k <= Len(hist)
          /\ hist[i].e.op = "load" /\ hist[i].e.code = "counter" /\ hist[i].ok
          /\ \A q \in 1..k : /\ hist[i + q].e.op = "call"
                             /\ ToLower(hist[i + q].e.name) = "increment"
                             /\ hist[i + q].e.args = <<>> )
        => /\ hist[i + k].ok
           /\ hist[i + k].v.k \in {"int", "int64", "float64"}
           /\ hist[i + k].v.n = k * hist[i + k].v.d

\* ------------------------------------------------------------------ C3

\* C3: a call starts from a scope stack that holds its parameters and
\* nothing else, whatever earlier calls bound; so every call that reads a
\* name bound only during an earlier call (tryGetX, tryGetY, tryGetP after
\* setAndGet) prints nothing and fails, with the undefined-variable error
\* once the function exists and its body runs.
C3_CallLocalsDoNotPersist ==
    /\ (AtFirstStatement /\ cur.op = "call") =>
           LET fn == userFuncs[ToLower(cur.name)]
           IN  /\ Len(scopes) = 1
               /\ \A key \in VarKeys :
                      scopes[1][key] # Unbound =>
                          \E j \in 1..Len(fn.params) :
                              /\ ToLower(fn.params[j]) = key
                              /\ scopes[1][key] = cur.args[j]
    /\ \A i \in 1..Len(hist) :
           (hist[i].e.op = "call" /\ hist[i].e.name \in {"tryGetX", "tryGetY", "tryGetP"}) =>
               /\ ~hist[i].ok
               /\ hist[i].out = <<>>
               /\ hist[i].stmts > 0 => hist[i].err = "undefined variable"

\* A call of setAndGet returned 42, and the call of tryGetX after it failed.
C3_Witness ==
    /\ Idle
    /\ Len(hist) >= 2
    /\ hist[Len(hist) - 1].e.name = "setAndGet"
    /\ hist[Len(hist) - 1].ok
    /\ hist[Len(hist) - 1].v = Int64V(42)
    /\ Last.e.name = "tryGetX"
    /\ Last.err = "undefined variable"
    /\ scopes[1]["x"] = Unbound

\* ------------------------------------------------------------------ C4

C5_StartsClean ==
    (AtFirstStatement /\ cur.op \in {"run", "call"}) =>
        /\ ~breakFlag
        /\ ~returnFlag
        /\ returnValue = NilV
        /\ iterationCount = 0

\* A call is about to execute its first statement after a run that ended
\* with both flags set and a return value of 5.
C5_Witness ==
    /\ AtFirstStatement
    /\ cur.op = "call"
    /\ Len(hist) >= 1
    /\ Last.e.op = "run"
    /\ Last.e.code = "flags"
    /\ Last.ok
    /\ ~breakFlag /\ ~returnFlag


\* ------------------------------------------------------------------ C6

\* The activations that pushed a scope frame: a for loop past its bounds
\* and a user function called from an expression.
ScopeOwners == {j \in DOMAIN stack : stack[j].f \in {"for", "call"}}

\* C6: the scope stack always holds the global frame and, above it, exactly
\* one frame for each for loop and each function body still executing: a
\* frame is gone as soon as its loop or function has returned, by running
\* out, by BREAK, by RETURN or with an error. No activation is left when an
\* entry point has returned, and the depth is then exactly 1.
C6_ScopesBalanced ==
    /\ Len(scopes) >= 1
    /\ Len(scopes) = 1 + Cardinality(ScopeOwners)
    /\ Idle => (stack = <<>> /\ Len(scopes) = 1)

\* The run of "exits" has returned: its calls of early left their loop by
\* RETURN, by BREAK and with an error that ended the run, three bodies in all.
C6_Witness ==
    /\ Idle
    /\ Len(hist) >= 1
    /\ Last.e.op = "run"
    /\ Last.e.code = "exits"
    /\ Last.err = "undefined variable"
    /\ Last.bodyRuns = 3
    /\ scopes[1]["x"] = IntV(1)
    /\ scopes[1]["y"] = NilV
    /\ Len(scopes) = 1

\* ------------------------------------------------------------------ C7

SameRun(a, b) ==
    /\ a.e.op = "run" /\ b.e.op = "run"
    /\ a.e.code = b.e.code
    /\ a.e.limit = b.e.limit
    /\ a.e.externals = b.e.externals

SameBehaviour(a, b) ==
    /\ a.ok = b.ok
    /\ a.err = b.err
    /\ a.v = b.v
    /\ a.out = b.out

\* C7 (as stated): two runs of the same source in a row on one instance
\* return the same result and print the same sequence.
C7_SameTwice ==
    \A i \in 1..(Len(hist) - 1) :
        SameRun(hist[i], hist[i + 1]) => SameBehaviour(hist[i], hist[i + 1])

\* C7 (amended): two runs of the same source in a row return the same
\* result and print the same sequence when the second starts from the
\* global frame the first started from; and a source that parsed is in the
\* AST cache from then on, under its hash, as the program it parsed to, so
\* the second run is served from the cache.
C7_SameTwiceFromSameGlobals ==
    /\ \A i \in 1..(Len(hist) - 1) :
           (SameRun(hist[i], hist[i + 1]) /\ hist[i].e.globals0 = hist[i + 1].e.globals0)
               => SameBehaviour(hist[i], hist[i + 1])
    /\ \A i \in 1..Len(hist) :
           (hist[i].e.op \in {"run", "load", "validate"} /\ Parses(hist[i].e.code))
               => astCache[hashCode(hist[i].e.code)] =
                      [present |-> TRUE, prog |-> ProgramOf(hist[i].e.code)]

\* "flags" ran twice in a row from the same global frame and printed "a"
\* both times, the second time with both flags still set from the first.
C7_Witness ==
    /\ Idle
    /\ Len(hist) >= 2
    /\ SameRun(hist[Len(hist) - 1], Last)
    /\ Last.e.code = "flags"
    /\ hist[Len(hist) - 1].e.globals0 = Last.e.globals0
    /\ hist[Len(hist) - 1].out = <<StrV("a")>>
    /\ Last.out = <<StrV("a")>>
    /\ astCache[hashCode("flags")].present

\* ------------------------------------------------------------------ C8

\* The step is a whole entry point of kind op on a text that does not lex
\* or does not parse.
FailedParse(op) ==
    /\ Idle
    /\ cur'.n # cur.n
    /\ cur'.op = op
    /\ ~Parses(cur'.code)

\* C8: a run, a load or a validate of a text that does not lex or parse
\* returns an error in that very step, executes no statement and prints
\* nothing, and leaves the AST cache, the scope stack, the function table,
\* the flags, the return value and the iteration counter as they were.
C8_ParseFailureChangesNothing ==
    [][ (FailedParse("run") \/ FailedParse("load") \/ FailedParse("validate")) =>
            /\ ctl'.m = "idle"
            /\ ctl'.err # ""
            /\ stmts' = 0
            /\ out' = <<>>
            /\ hist' = Append(hist, Completed(cur', [ctl |-> ctl', out |-> <<>>, stmts |-> 0,
                                                      bodyRuns |-> 0]))
            /\ UNCHANGED <<astCache, scopes, userFuncs, breakFlag, returnFlag, returnValue,
                           iterationCount>> ]_vars

\* A run of a text with a syntax error returned its error after a run that
\* left a function, a global frame of its own and both flags set.
C8_Witness ==
    /\ Idle
    /\ Len(hist) >= 2
    /\ Last.e.op = "run"
    /\ Last.e.code = "badparse"
    /\ Last.err = "expected identifier after LET"
    /\ Last.stmts = 0
    /\ hist[Len(hist) - 1].e.code = "flags"
    /\ breakFlag /\ returnFlag /\ returnValue = Int64V(5)
    /\ HasFunction("ping")
    /\ ~astCache[hashCode("badparse")].present

\* ------------------------------------------------------------------ C9

\* The names a host asks has_function about.
QueryNames == {"test", "Test", "TEST", "increment", "Increment", "ping", "GetOne", "missing"}

\* C9: once a load or a run has returned without error, and for as long as
\* no other entry point is started (callbacks may be registered meanwhile),
\* has_function answers true exactly for the names that are, without regard
\* to case, names of top-level functions of that program.
C9_HasFunctionOfLastProgram ==
    (Idle /\ Len(hist) >= 1 /\ Last.e.op \in {"run", "load"} /\ Last.ok) =>
        \A name \in QueryNames :
            HasFunction(name) <=> ToLower(name) \in FunctionNames(ProgramOf(Last.e.code))

\* "top" ran after "counter" was loaded, with callbacks registered under
\* the names Test and GetOne: Test is a script function in any case,
\* increment is one no more, GetOne never was.
C9_Witness ==
    /\ Idle
    /\ Len(hist) >= 2
    /\ hist[Len(hist) - 1].e.op = "load"
    /\ hist[Len(hist) - 1].e.code = "counter"
    /\ hist[Len(hist) - 1].ok
    /\ Last.e.op = "run"
    /\ Last.e.code = "top"
    /\ Last.ok
    /\ externalFuncs["test"] # NoCallback
    /\ externalFuncs["getone"] # NoCallback
    /\ HasFunction("TEST")
    /\ ~HasFunction("increment")
    /\ ~HasFunction("GetOne")

\* ------------------------------------------------------------------ C10

\* The step is a whole call whose name is not a script function or whose
\* arguments are not as many as the function's parameters.
FailedCallCheck ==
    /\ Idle
    /\ cur'.n # cur.n
    /\ cur'.op = "call"
    /\ LET fn == userFuncs[ToLower(cur'.name)]
       IN  \/ fn.t # "function"
           \/ Len(cur'.args) # Len(fn.params)

\* C10: a call of a name that is not a script function, or with a number
\* of arguments other than the function's number of parameters, returns an
\* error in that very step, executes no statement and leaves the scope
\* stack, the flags, the return value and the iteration counter as they were.
C10_FailedCallChangesNothing ==
    [][ FailedCallCheck =>
            /\ ctl'.m = "idle"
            /\ ctl'.err \in {"undefined function", "wrong number of arguments"}
            /\ ctl'.v = NilV
            /\ stmts' = 0
            /\ out' = <<>>
            /\ UNCHANGED <<scopes, breakFlag, returnFlag, returnValue, iterationCount,
                           userFuncs>> ]_vars

\* ping was called with an argument it does not take, after a run that left
\* both flags set: the call returned its error and the flags are still set.
C10_Witness ==
    /\ Idle
    /\ Len(hist) >= 2
    /\ hist[Len(hist) - 1].e.code = "flags"
    /\ Last.e.op = "call"
    /\ Last.e.name = "ping"
    /\ Last.err = "wrong number of arguments"
    /\ Last.stmts = 0
    /\ breakFlag /\ returnFlag /\ returnValue = Int64V(5)


\* ------------------------------------------------------------------ C11

\* A completed run of one of the two texts that read i after a loop over i.
ReadAfterLoop(h) == h.e.op = "run" /\ h.e.code \in {"leak", "shadow"}

Ascending(lo, hi) == [q \in 1..(IF hi >= lo THEN hi - lo + 1 ELSE 0) |-> IntV(lo + q - 1)]

\* A completed call of span(s, e) that found the function.
SpanCall(h) == h.e.op = "call" /\ h.e.name = "span" /\ h.stmts > 0

ForFrames == {q \in DOMAIN stack : stack[q].f = "for"}

C14_CalleeCannotSeeCaller ==
    \A n \in 1..Len(hist) :
        (hist[n].e.op = "run" /\ hist[n].e.code = "capture") =>
            /\ hist[n].out = <<>>
            /\ hist[n].err = "undefined variable"

\* ------------------------------------------------------------------ C15

\* C15: in "let" the global x is "global", the function shadow executes
\* `let x = "local"` and prints x, and the program prints x after the call:
\* the run prints local, then global; the global frame never holds "local"
\* and holds "global" when the run has returned.
C15_LetBindsInFunctionFrame ==
    /\ \A n \in 1..Len(hist) :
           (hist[n].e.op = "run" /\ hist[n].e.code = "let") =>
               /\ hist[n].ok
               /\ hist[n].out = <<StrV("local"), StrV("global")>>
    /\ cur.code = "let" =>
           /\ scopes[1]["x"] # StrV("local")
           /\ Idle => scopes[1]["x"] = StrV("global")

\* shadow is executing with its own x bound to "local" above the global x.
C15_Witness ==
    /\ ~Idle
    /\ cur.code = "let"
    /\ Len(scopes) = 2
    /\ scopes[2]["x"] = StrV("local")
    /\ scopes[1]["x"] = StrV("global")
    /\ out = <<StrV("local")>>

\* ------------------------------------------------------------------ C16

\* C16: in "assign" the function setg assigns the existing global g and a
\* new name `fresh`, and seth assigns g after a LET of its own g. The run
\* prints tmp (fresh inside setg), new (the global after setg), changed
\* (what seth returned), new (the global after seth), and fails at the read
\* of `fresh` after setg has returned. The global frame then holds g = "new"
\* and no `fresh`.
C16_AssignUpdatesNearestBinding ==
    /\ \A n \in 1..Len(hist) :
           (hist[n].e.op = "run" /\ hist[n].e.code = "assign") =>
               /\ hist[n].out = <<StrV("tmp"), StrV("new"), StrV("changed"), StrV("new")>>
               /\ hist[n].err = "undefined variable"
    /\ (Idle /\ cur.code = "assign") =>
           /\ scopes[1]["g"] = StrV("new")
           /\ scopes[1]["r"] = StrV("changed")
           /\ scopes[1]["fresh"] = Unbound

\* setg is executing: it has changed the global g and holds `fresh` in its
\* own frame.
C16_Witness ==
    /\ ~Idle
    /\ cur.code = "assign"
    /\ Len(scopes) = 2
    /\ scopes[1]["g"] = StrV("new")
    /\ scopes[2]["g"] = Unbound
    /\ scopes[2]["fresh"] = StrV("tmp")
    /\ scopes[1]["fresh"] = Unbound


\* ------------------------------------------------------------------ C17

\* C17: "host" declares the script function Echo, whose body prints script
\* and returns "s", and prints Echo("arg") and then Echo(). When the host has
\* registered a callback under "echo" (one that returns its first argument
\* and fails without one), every run prints arg, the callback's result on
\* the evaluated argument, then fails with the callback's error; the script
\* body never prints.
C17_HostCallbackBeforeScriptFunction ==
    /\ \A n \in 1..Len(hist) :
           ( /\ hist[n].e.op = "run"
             /\ hist[n].e.code = "host"
             /\ hist[n].e.externals["echo"] # NoCallback ) =>
               /\ hist[n].out = <<StrV("arg")>>
               /\ hist[n].err = "host callback error"
    /\ (cur.code = "host" /\ cur.externals["echo"] # NoCallback) =>
           /\ \A k \in 1..Len(out) : out[k] # StrV("script")
           /\ \A k \in 1..Len(stack) : stack[k].f # "call"

\* A run of "host" with the callback registered has printed the callback's
\* result and is still running.
C17_Witness ==
    /\ ~Idle
    /\ cur.op = "run"
    /\ cur.code = "host"
    /\ cur.externals["echo"] = "first"
    /\ userFuncs["echo"].t = "function"
    /\ out = <<StrV("arg")>>

\* ------------------------------------------------------------------ C18

\* C18: in "returns" give returns "v", none only prints, and both calls give
\* and then none and prints what none gave. A host call of none or of both
\* returns nil whatever the call before it returned, and the run of the
\* program, in which none() follows give() at top level and inside both,
\* prints nil for each of them.
C18_NoReturnYieldsNil ==
    \A n \in 1..Len(hist) :
        /\ ( /\ hist[n].e.op = "call"
             /\ hist[n].e.name \in {"none", "both"}
             /\ hist[n].stmts > 0 ) =>
               /\ hist[n].ok
               /\ hist[n].v = NilV
        /\ (hist[n].e.op = "call" /\ hist[n].e.name = "both" /\ hist[n].stmts > 0) =>
               hist[n].out = <<StrV("n"), NilV>>
        /\ (hist[n].e.op = "run" /\ hist[n].e.code = "returns") =>
               /\ hist[n].ok
               /\ hist[n].out = <<StrV("n"), NilV, StrV("n"), NilV, NilV>>

\* A host call of give returned "v" and the host call of none after it
\* has returned.
C18_Witness ==
    /\ Idle
    /\ Len(hist) >= 2
    /\ LET a == hist[Len(hist) - 1]
           b == hist[Len(hist)]
       IN  /\ a.e.op = "call" /\ a.e.name = "give" /\ a.ok /\ a.v = StrV("v")
           /\ b.e.op = "call" /\ b.e.name = "none" /\ b.ok /\ b.v = NilV
           /\ b.out = <<StrV("n")>>

\* ------------------------------------------------------------------ C19

\* C19 (as stated): a host call of inc (x++), dec (x--), addto (x += e) or
\* subfrom (x -= e) whose x is a string, a boolean or nil fails.
C19_CompoundOnNonNumericFails ==
    \A n \in 1..Len(hist) :
        ( /\ hist[n].e.op = "call"
          /\ hist[n].e.name \in {"inc", "dec", "addto", "subfrom"}
          /\ hist[n].stmts > 0
          /\ hist[n].e.args[1].k \notin {"int", "float64"} ) =>
            ~hist[n].ok

\* ------------------------------------------------------------------ C20

\* C20 (as stated): "arith" prints 2 + 3, 10 / 3 and 10.0 / 3; every run
\* succeeds and prints the int 5, the int 3 and the float 10/3.
C20_IntegerLiteralArithmetic ==
    \A n \in 1..Len(hist) :
        (hist[n].e.op = "run" /\ hist[n].e.code = "arith") =>
            /\ hist[n].ok
            /\ hist[n].out = <<IntV(5), IntV(3), FloatV(10, 3)>>


\* ------------------------------------------------------------------ C21

\* The name is its own lowercase form.
Lowercase(key) == ToLower(key) = key

\* C21: every key bound in a scope frame, in the script-function table and
\* in the host-callback table is lowercase; and in "case", after `let X = 5`,
\* `print x` prints 5, `getvalue()` reaches the callback the host registered
\* as GetValue (or, without one, the script function declared as GetValue),
\* and `X = "again"` assigns the same variable that `print x` then reads.
C21_NamesAreLowercased ==
    /\ \A q \in 1..Len(scopes) : \A key \in VarKeys :
           Has(scopes[q], key) => Lowercase(key)
    /\ \A key \in FuncKeys :
           /\ userFuncs[key].t = "function" => Lowercase(key)
           /\ externalFuncs[key] # NoCallback => Lowercase(key)
    /\ \A n \in 1..Len(hist) :
           (hist[n].e.op = "run" /\ hist[n].e.code = "case") =>
               /\ hist[n].ok
               /\ hist[n].out =
                      << Int64V(5),
                         IF hist[n].e.externals["getvalue"] # NoCallback
                         THEN IntV(1) ELSE StrV("script"),
                         StrV("again") >>

\* "case" ran with the callback registered as GetValue: X is bound under
\* "x", both tables hold "getvalue", and the run printed the callback's 1.
C21_Witness ==
    /\ Idle
    /\ Len(hist) >= 1
    /\ Last.e.op = "run"
    /\ Last.e.code = "case"
    /\ Last.out = <<Int64V(5), IntV(1), StrV("again")>>
    /\ scopes[1]["x"] = StrV("again")
    /\ scopes[1]["X"] = Unbound
    /\ externalFuncs["getvalue"] = "one"
    /\ externalFuncs["GetValue"] = NoCallback
    /\ userFuncs["getvalue"].t = "function"


\* ------------------------------------------------------------------ C22

\* The value is the integer 0 or the float 0.0.
IsZero(val) == val.k \in {"int", "float64"} /\ val.n = 0

\* A completed host call div(a, b) with b zero that reached the body.
DivByZeroCall(h) ==
    /\ h.e.op = "call"
    /\ h.e.name = "div"
    /\ h.stmts > 0
    /\ IsZero(h.e.args[2])

\* C22: div(a, b) executes `let q = a / b`, prints, and returns q. With b the
\* integer 0 or the float 0.0 the call fails in its first statement,
\* whatever a is (an int, a float, zero itself, a string), with "division by
\* zero" when a is a number; nothing is printed and the call that reached
\* its body never binds q. The
\* runs of `let x = 10 / 0` and of `q = 1.5 / 0.0` fail in the same way and
\* leave x and q in the global frame as they were when the run started.
C22_DivisionByZeroIsError ==
    /\ \A n \in 1..Len(hist) :
           /\ DivByZeroCall(hist[n]) =>
                  /\ ~hist[n].ok
                  /\ hist[n].stmts = 1
                  /\ hist[n].out = <<>>
                  /\ hist[n].e.args[1].k \in {"int", "float64"} =>
                         hist[n].err = "division by zero"
           /\ (hist[n].e.op = "run" /\ hist[n].e.code \in {"divlit", "divfloat"}) =>
                  /\ ~hist[n].ok
                  /\ hist[n].stmts = 1
                  /\ hist[n].out = <<>>
    /\ (/\ cur.op = "call"
        /\ cur.name = "div"
        /\ Len(cur.args) = 2
        /\ IsZero(cur.args[2])
        /\ stmts > 0) =>
           \A q \in 1..Len(scopes) : ~Has(scopes[q], "q")
    /\ cur.code \in {"divlit", "divfloat"} =>
           /\ scopes[1]["x"] = cur.globals0["x"]
           /\ scopes[1]["q"] = cur.globals0["q"]

\* div(1.5, 0.0) has returned "division by zero".
C22_Witness ==
    /\ Idle
    /\ Len(hist) >= 1
    /\ DivByZeroCall(Last)
    /\ Last.e.args = <<FloatV(3, 2), FloatV(0, 1)>>
    /\ Last.err = "division by zero"
    /\ \A q \in 1..Len(scopes) : ~Has(scopes[q], "q")


\* ------------------------------------------------------------------ C23

\* C23 (as stated): the run of the recursive factorial with `print
\* factorial(5)` succeeds and prints the integer 120.
C23_FactorialOfFive ==
    \A n \in 1..Len(hist) :
        (hist[n].e.op = "run" /\ hist[n].e.code = "factorial") =>
            /\ hist[n].ok
            /\ Len(hist[n].out) = 1
            /\ hist[n].out[1].k \in {"int", "int64"}
            /\ hist[n].out[1].n = 120

\* The same function written with float literals: the run prints 6 (the
\* results of the three nested calls multiplied) and then next, the
\* statement after the call; and whenever a call frame is on top and its body
\* has returned, the frame holds the flag and the value the caller had.
ReturnStateRestoredInFact ==
    /\ \A n \in 1..Len(hist) :
           (hist[n].e.op = "run" /\ hist[n].e.code = "fact") =>
               /\ hist[n].ok
               /\ hist[n].out = <<FloatV(6, 1), StrV("next")>>
    /\ (cur.code = "fact" /\ stack # <<>>) =>
           \A q \in 1..Len(stack) :
               stack[q].f = "call" => (~stack[q].flag /\ stack[q].v = NilV)


\* ------------------------------------------------------------------ C24

\* C24: t prints t and returns true, f prints f and returns false. In
\* "logic", `print f() and t()` prints f, t, false and `print t() or f()`
\* prints t, f, true: both operands ran, left first, although the left one
\* decided. `print t() or Echo()` prints t and then fails with the error of
\* the right operand: the host callback's when Echo is registered (it fails
\* without an argument), undefined function when it is not.
C24_BothOperandsEvaluated ==
    \A n \in 1..Len(hist) :
        (hist[n].e.op = "run" /\ hist[n].e.code = "logic") =>
            /\ hist[n].out = << StrV("f"), StrV("t"), BoolV(FALSE),
                                StrV("t"), StrV("f"), BoolV(TRUE),
                                StrV("t") >>
            /\ hist[n].err = IF hist[n].e.externals["echo"] # NoCallback
                             THEN "host callback error" ELSE "undefined function"

\* "logic" ran with Echo registered and failed in the right operand of its
\* last OR.
C24_Witness ==
    /\ Idle
    /\ Len(hist) >= 1
    /\ Last.e.op = "run"
    /\ Last.e.code = "logic"
    /\ Last.e.externals["echo"] = "first"
    /\ Last.err = "host callback error"
    /\ Len(Last.out) = 7


\* ------------------------------------------------------------------ C25

\* The step is a whole or starting run, load or validate.
ParsingEntry ==
    /\ Idle
    /\ cur'.n # cur.n
    /\ cur'.op \in {"run", "load", "validate"}

\* C25: in every step, an entry the AST cache holds stays as it is; an
\* entry appears only in the step of a run, load or validate whose text
\* lexes and parses, under that text's hash and as the program it parses to;
\* after such a step the cache holds that entry; and the program a run
\* executes is the cached one.
C25_CacheOnlyGrows ==
    [][ /\ \A h \in Hashes :
               /\ astCache[h].present => astCache'[h] = astCache[h]
               /\ (~astCache[h].present /\ astCache'[h].present) =>
                      /\ ParsingEntry
                      /\ Parses(cur'.code)
                      /\ h = hashCode(cur'.code)
                      /\ astCache'[h].prog = ProgramOf(cur'.code)
        /\ ParsingEntry =>
               astCache'[hashCode(cur'.code)].present = 
                   (astCache[hashCode(cur'.code)].present \/ Parses(cur'.code))
        /\ (stack' # <<>> /\ stack'[1].f = "program") =>
               /\ astCache'[hashCode(cur'.code)].present
               /\ stack'[1].list = astCache'[hashCode(cur'.code)].prog ]_vars

\* Three entry points have returned: the first cached its program, the
\* second cached another, and the third ran the first text again from the
\* cache; both entries are there.
C25_Witness ==
    /\ Idle
    /\ Len(hist) = 3
    /\ hist[1].e.code # hist[2].e.code
    /\ hist[3].e.code = hist[1].e.code
    /\ hist[3].e.op = "run"
    /\ Parses(hist[1].e.code)
    /\ Parses(hist[2].e.code)
    /\ astCache[hashCode(hist[1].e.code)] =
           [present |-> TRUE, prog |-> ProgramOf(hist[1].e.code)]
    /\ astCache[hashCode(hist[2].e.code)] =
           [present |-> TRUE, prog |-> ProgramOf(hist[2].e.code)]


\* ------------------------------------------------------------------ C28

\* C28 (as stated): in "stray" the function quit, whose body is a BREAK
\* outside any loop, is called first in the body of a loop over 1..2: the
\* loop still runs both iterations and prints 1 and 2, then done. In
\* "strayif" a BREAK at top level comes before an IF block that prints a and
\* b: both are printed, then c.
C28_StrayBreakEndsNoLoop ==
    \A n \in 1..Len(hist) :
        /\ (hist[n].e.op = "run" /\ hist[n].e.code = "stray") =>
               hist[n].out = <<IntV(1), IntV(2), StrV("done")>>
        /\ (hist[n].e.op = "run" /\ hist[n].e.code = "strayif") =>
               hist[n].out = <<StrV("a"), StrV("b"), StrV("c")>>

\* ------------------------------------------------------------------ C29

\* The loops whose body is about to start: the frame above is the body's
\* block, before its first statement.
StartingLoops ==
    {q \in 1..(Len(stack) - 1) :
        stack[q].f = "for" /\ stack[q + 1].f = "block" /\ stack[q + 1].idx = 0}

\* C29: "reassign" has a loop over i from 1 to 3 whose body prints i,
\* assigns 10.0 to i and prints i, then a loop over k from 1 to 2 whose body
\* prints k and assigns 0.0 to k. Every run prints 1, 10, 2, 10, 3, 10, 1, 2
\* and succeeds after five iterations; and whenever a body is about to
\* start, the loop variable holds the loop's own counter, which is the
\* start value plus the iterations this loop has completed.
C29_BodyAssignmentDoesNotSteerLoop ==
    /\ \A n \in 1..Len(hist) :
           (hist[n].e.op = "run" /\ hist[n].e.code = "reassign") =>
               /\ hist[n].ok
               /\ hist[n].bodyRuns = 5
               /\ hist[n].out = << IntV(1), FloatV(10, 1), IntV(2), FloatV(10, 1),
                                   IntV(3), FloatV(10, 1), IntV(1), IntV(2) >>
    /\ (cur.code = "reassign" /\ ~Idle) =>
           \A q \in StartingLoops :
               /\ currentScope(scopes)[ToLower(stack[q].node.variable)] = IntV(stack[q].idx)
               /\ stack[q].idx = IF stack[q].node.variable = "i" THEN bodyRuns
                                 ELSE bodyRuns - 3

\* The third iteration of the first loop is about to start with i = 3,
\* after the body assigned 10.0 to i twice.
C29_Witness ==
    /\ cur.code = "reassign"
    /\ ~Idle
    /\ StartingLoops # {}
    /\ out = <<IntV(1), FloatV(10, 1), IntV(2), FloatV(10, 1)>>
    /\ currentScope(scopes)["i"] = IntV(3)

\* ------------------------------------------------------------------ C27

LexReturned == tokenizer.pc = "returned"

TokenTypes(tokens) == [i \in 1..Len(tokens) |-> tokens[i].Type]

\* What Tokenize may return: an error and no tokens, or tokens among which
\* there is no comment and of which the last one, and only it, is EOF.
LexResultShape ==
    IF tokenizer.err # NoLexError
    THEN tokenizer.tokens = <<>>
    ELSE LET types == TokenTypes(tokenizer.tokens)
         IN  /\ Len(types) >= 1
             /\ types[Len(types)] = "EOF"
             /\ \A i \in 1..(Len(types) - 1) : types[i] # "EOF"
             /\ \A i \in 1..Len(types) : types[i] # "COMMENT"

\* C27: Tokenize terminates on every input, and what it returns is either a
\* lexical error with no tokens, or a token sequence without a comment token
\* whose last token, and no other, is EOF.
C27_TokenizeTerminates ==
    /\ <>LexReturned
    /\ [](LexReturned => LexResultShape)

\* Tokenize returned tokens for an input with a comment between two lines.
C27_Witness ==
    /\ LexReturned
    /\ tokenizer.err = NoLexError
    /\ tokenizer.input = <<"1", "#", "o", "\n">>
    /\ TokenTypes(tokenizer.tokens) = <<"INT", "NEWLINE", "EOF">>

\* ------------------------------------------------------------------ C26

\* How tightly each binary operator binds, as the claim orders them.
Tightness(operator) ==
    CASE operator = "or"          -> 1
      [] operator = "and"         -> 2
      [] operator = "="           -> 3
      [] operator = "<"           -> 4
      [] operator \in {"+", "-"}  -> 5
      [] operator = "*"           -> 6

\* Every binary node groups by precedence and to the left: a binary left
\* child binds at least as tightly as its parent, a binary right child
\* strictly tighter, and the operand of a unary operator is never binary.
RECURSIVE GroupedByPrecedence(_)
GroupedByPrecedence(expr) ==
    CASE expr.t = "binary" ->
            /\ expr.left.t = "binary" =>
                   Tightness(expr.left.operator) >= Tightness(expr.operator)
            /\ expr.right.t = "binary" =>
                   Tightness(expr.right.operator) > Tightness(expr.operator)
            /\ GroupedByPrecedence(expr.left)
            /\ GroupedByPrecedence(expr.right)
      [] expr.t = "unary" ->
            /\ expr.operand.t # "binary"
            /\ GroupedByPrecedence(expr.operand)
      [] OTHER -> TRUE

\* The token types an expression tree spells, left to right.
RECURSIVE Spelling(_)
Spelling(expr) ==
    CASE expr.t = "binary" ->
            Spelling(expr.left)
            \o <<CHOOSE ty \in BinaryTokens : Operator(ty) = expr.operator>>
            \o Spelling(expr.right)
      [] expr.t = "unary" ->
            <<IF expr.operator = "not" THEN "NOT" ELSE "MINUS">> \o Spelling(expr.operand)
      [] expr.t = "ident" -> <<"IDENTIFIER">>
      [] expr.t = "int"   -> <<"INT">>

ParsedTypes == TokenTypes(parser.tokens)

ParsedWhole ==
    /\ parser.pc = "returned"
    /\ parser.err = ""
    /\ parser.current.Type = "EOF"

\* No operand of the input is missing: the expression ends in an operand, and
\* every operator that can only be binary stands between an operand and the
\* start of one (a minus without a left operand is read as a unary minus).
OperandsAllPresent ==
    /\ ParsedTypes[Len(ParsedTypes) - 1] \in {"IDENTIFIER", "INT"}
    /\ \A i \in 2..(Len(ParsedTypes) - 1) :
          ParsedTypes[i] \in BinaryTokens \ {"MINUS"} =>
              /\ ParsedTypes[i - 1] \in {"IDENTIFIER", "INT"}
              /\ ParsedTypes[i + 1] \in {"IDENTIFIER", "INT", "NOT", "MINUS"}

NameExpr(i) == Identifier(<<<<"a", "b", "c">>[i]>>)

\* C26: binary operators bind in the order or < and < equality <
\* comparison < additive < multiplicative < unary, and operators of equal
\* precedence group to the left: every expression with all its operands
\* parses whole, to a tree that spells the input and groups by that order;
\* `a and b or c` is `(a and b) or c`, `2 + 3 * 4` is `2 + (3 * 4)`, and
\* `10 - 4 - 3` groups as `(10 - 4) - 3`.
C26_PrecedenceAndLeftGrouping ==
    parser.pc = "returned" =>
        /\ OperandsAllPresent => ParsedWhole
        /\ ParsedWhole =>
              /\ Spelling(parser.expr) = SubSeq(ParsedTypes, 2, Len(ParsedTypes) - 1)
              /\ GroupedByPrecedence(parser.expr)
        /\ ParsedTypes = <<"PRINT", "IDENTIFIER", "AND", "IDENTIFIER", "OR", "IDENTIFIER", "EOF">>
              => parser.expr = BinaryExpr(BinaryExpr(NameExpr(1), "and", NameExpr(2)),
                                          "or", NameExpr(3))
        /\ ParsedTypes = <<"PRINT", "INT", "PLUS", "INT", "STAR", "INT", "EOF">>
              => parser.expr = BinaryExpr(IntLiteral(2), "+",
                                          BinaryExpr(IntLiteral(3), "*", IntLiteral(4)))
        /\ ParsedTypes = <<"PRINT", "INT", "MINUS", "INT", "MINUS", "INT", "EOF">>
              => parser.expr = BinaryExpr(BinaryExpr(IntLiteral(2), "-", IntLiteral(3)),
                                          "-", IntLiteral(4))

\* `a + b * c` was parsed, with the product as the right operand of the sum.
C26_Witness ==
    /\ ParsedWhole
    /\ ParsedTypes = <<"PRINT", "IDENTIFIER", "PLUS", "IDENTIFIER", "STAR", "IDENTIFIER", "EOF">>
    /\ parser.expr.operator = "+"
    /\ parser.expr.right.t = "binary"

\* ------------------------------------------------------------------ C30

\* The scenario of the recursive programs is the only one with recursion.
NoRecursion == suite # "recursion"

\* C30: every run or call of a program without recursion, whose host
\* callbacks return, eventually completes: the for loop is the only
\* construct that repeats, and the iteration limit cuts it off.
C30_EntryPointsComplete == (~Idle /\ NoRecursion) ~> Idle

\* A run whose loop the iteration limit cut off has completed, after the
\* loop body ran.
C30_Witness ==
    /\ Idle
    /\ NoRecursion
    /\ hist # <<>>
    /\ hist[Len(hist)].err = IterationBound
    /\ hist[Len(hist)].bodyRuns >= 1
    /\ hist[Len(hist)].e.op = "run"

====
